---- MODULE Spec2Model ----
(***************************************************************************)
(* Model of the ingress node firewall loader (package nodefwloader):       *)
(*   - parseDstPorts, the port-text parser;                                *)
(*   - makeIngressFwRulesMap / IngressNodeFwRulesLoader, the rule compiler *)
(*     driving the LPM table (the Map Store);                              *)
(*   - IngressNodeFwAttach / cleanup, the attachment manager;              *)
(*   - ingressNodeFwEvents, the event pipeline, with the packet decoding   *)
(*     of gopacket it relies on.                                           *)
(* Texts (port texts, CIDR strings) are sequences of one-character         *)
(* strings, so that parsing is computed character by character as the     *)
(* Go code and the library routines it calls compute it.                   *)
(***************************************************************************)
EXTENDS Integers, Sequences, FiniteSets, TLC

VARIABLES
    ports,      \* SpecPorts: the text handed to parseDstPorts
    parsed,     \* SpecPorts: what parseDstPorts returned for it
    cfgRules,   \* SpecCompile: the FirewallProtocolRules handed to the compiler
    compiled,   \* SpecCompile: what the rule loop of makeIngressFwRulesMap produced
    table,      \* the kernel LPM table IngressNodeFirewallTableMap: entry id -> value
    objsOpen,   \* infc.objs still open (maps and program not yet Close()d)
    pipelines,  \* number of event pipelines started by ingressNodeFwEvents
    links,      \* infc.links, the in-memory registry of attachments
    xdp,        \* kernel: interfaces that have the program bound by a live link
    pins,       \* bpffs: pin paths that exist
    last,       \* the last call: arguments and outcome; finalizers run since
    pre,        \* the state the last call started from
    readers,    \* one record per perf reader ingressNodeFwEvents has opened
    term,       \* a termination request (SIGINT or SIGTERM) has arrived
    ev          \* the last turn of a reader loop: what Read returned, the lines

vars == <<ports, parsed, cfgRules, compiled, table, objsOpen, pipelines,
          links, xdp, pins, last, pre, readers, term, ev>>

(***************************************************************************)
(* Texts                                                                   *)
(***************************************************************************)
Digits == <<"0", "1", "2", "3", "4", "5", "6", "7", "8", "9">>

IsDigit(c) == \E i \in 1..10 : Digits[i] = c

DigitVal(c) == (CHOOSE i \in 1..10 : Digits[i] = c) - 1

\* strings.Contains(s, c) for a one-character c
Contains(s, c) == \E i \in 1..Len(s) : s[i] = c

\* strings.Index(s, c) for a one-character c, 1-based; 0 when absent
IndexOf(s, c) ==
    IF Contains(s, c) THEN CHOOSE i \in 1..Len(s) :
                              s[i] = c /\ \A j \in 1..(i-1) : s[j] # c
    ELSE 0

\* strings.SplitN(s, sep, 2) for a text that contains sep: the part before
\* the first sep and everything after it
SplitN2(s, c) ==
    LET i == IndexOf(s, c)
    IN  <<SubSeq(s, 1, i-1), SubSeq(s, i+1, Len(s))>>

\* the largest value of a bitSize-16 parse
MaxUint16 == 65535

\* strconv.ParseUint(s, 10, 16): the digit loop, left to right, from value n
RECURSIVE ParseUintLoop(_, _, _)
ParseUintLoop(s, i, n) ==
    IF i > Len(s) THEN [err |-> FALSE, val |-> n]
    ELSE IF ~IsDigit(s[i]) THEN [err |-> TRUE, val |-> 0]            \* ErrSyntax
    ELSE LET n1 == n * 10 + DigitVal(s[i])
         IN  IF n1 > MaxUint16 THEN [err |-> TRUE, val |-> MaxUint16] \* ErrRange
             ELSE ParseUintLoop(s, i + 1, n1)

ParseUint16(s) ==
    IF Len(s) = 0 THEN [err |-> TRUE, val |-> 0]                     \* ErrSyntax
    ELSE ParseUintLoop(s, 1, 0)

(***************************************************************************)
(* parseDstPorts                                                           *)
(***************************************************************************)
PortsError == [err |-> TRUE, start |-> 0, end |-> 0]

\* lines 375-381: no hyphen; port is what ParseUint(ports, 10, 16) returned
SinglePort(port) ==
    IF port.err THEN PortsError
    ELSE [err |-> FALSE, start |-> port.val % 65536, end |-> 0]

\* a range that does not look at the error of its second number
PortRange_EndUnchecked(startPort, endPort) ==
    IF startPort.err THEN PortsError
    ELSE [err |-> FALSE, start |-> startPort.val % 65536,
                         end   |-> endPort.val % 65536]

\* lines 386-394: startPort and endPort are what ParseUint returned for
\* ps[0] and ps[1]
PortRange(startPort, endPort) ==
    IF startPort.err THEN PortsError
    ELSE IF endPort.err THEN PortsError
    ELSE [err |-> FALSE, start |-> startPort.val % 65536,
                         end   |-> endPort.val % 65536]

\* lines 382-385: ps is what SplitN returned
SplitPorts(ps) ==
    IF Len(ps) # 2 THEN PortsError
    ELSE PortRange(ParseUint16(ps[1]), ParseUint16(ps[2]))

parseDstPorts(p) ==
    IF ~Contains(p, "-") THEN SinglePort(ParseUint16(p))
    ELSE SplitPorts(SplitN2(p, "-"))

(***************************************************************************)
(* The rule loop of makeIngressFwRulesMap                                  *)
(***************************************************************************)
\* capacity of the fixed array bpfRulesValSt.Rules (the ABI constant),
\* scaled down
MaxIngressRules == 2

\* the longest FirewallProtocolRules list handed to the compiler: one more
\* than the array holds
MaxRules == MaxIngressRules + 1

IPPROTO_TCP    == 6
IPPROTO_UDP    == 17
IPPROTO_SCTP   == 132
IPPROTO_ICMP   == 1
IPPROTO_ICMPV6 == 58

xdpDeny  == 1
xdpAllow == 2

\* bpfRuleTypeSt{}, the zero value of one array element
ZeroRule ==
    [RuleId |-> 0, Protocol |-> 0, DstPortStart |-> 0, DstPortEnd |-> 0,
     IcmpType |-> 0, IcmpCode |-> 0, Action |-> 0]

\* bpfRulesValSt{}, the zero value of the table value
ZeroRules ==
    [NumRules |-> 0, Rules |-> [i \in 0..(MaxIngressRules - 1) |-> ZeroRule]]

\* the TCP, UDP and SCTP cases: pp is what parseDstPorts returned
PortsCase(e, pp, proto) ==
    IF pp.err THEN [err |-> TRUE, entry |-> e]
    ELSE [err |-> FALSE,
          entry |-> [e EXCEPT !.DstPortStart = pp.start,
                              !.DstPortEnd = pp.end,
                              !.Protocol = proto]]

\* the ICMP and ICMPv6 cases
IcmpCase(rule, e, proto) ==
    [err |-> FALSE,
     entry |-> [e EXCEPT !.IcmpType = rule.ICMPType,
                         !.IcmpCode = rule.ICMPCode,
                         !.Protocol = proto]]

\* switch rule.Protocol: the entry after the protocol case, or an error
ProtocolCase(rule, e) ==
    CASE rule.Protocol = "TCP"    -> PortsCase(e, parseDstPorts(rule.Ports), IPPROTO_TCP)
      [] rule.Protocol = "UDP"    -> PortsCase(e, parseDstPorts(rule.Ports), IPPROTO_UDP)
      [] rule.Protocol = "SCTP"   -> PortsCase(e, parseDstPorts(rule.Ports), IPPROTO_SCTP)
      [] rule.Protocol = "ICMP"   -> IcmpCase(rule, e, IPPROTO_ICMP)
      [] rule.Protocol = "ICMPv6" -> IcmpCase(rule, e, IPPROTO_ICMPV6)
      [] OTHER                    -> [err |-> TRUE, entry |-> e]

\* an action switch with its two codes exchanged
ActionCase_Swapped(rule, e) ==
    CASE rule.Action = "Allow" -> [err |-> FALSE, entry |-> [e EXCEPT !.Action = xdpDeny]]
      [] rule.Action = "Deny"  -> [err |-> FALSE, entry |-> [e EXCEPT !.Action = xdpAllow]]
      [] OTHER                 -> [err |-> TRUE, entry |-> e]

\* switch rule.Action
ActionCase(rule, e) ==
    CASE rule.Action = "Allow" -> [err |-> FALSE, entry |-> [e EXCEPT !.Action = xdpAllow]]
      [] rule.Action = "Deny"  -> [err |-> FALSE, entry |-> [e EXCEPT !.Action = xdpDeny]]
      [] OTHER                 -> [err |-> TRUE, entry |-> e]

\* for idx, rule := range FirewallProtocolRules, from 0-based index idx on.
\* status "panic": rules.Rules[idx] with idx beyond the array is a run-time
\* index-out-of-range panic, raised before the rule is looked at.
RECURSIVE RulesLoop(_, _, _)

\* the second switch of the loop body, and on to the next rule: a is what
\* the action switch made of the entry
AfterAction(list, idx, rules, a) ==
    IF a.err
    THEN [status |-> "error", rules |-> [rules EXCEPT !.Rules[idx] = a.entry]]
    ELSE RulesLoop(list, idx + 1, [rules EXCEPT !.Rules[idx] = a.entry])

\* the first switch of the loop body: p is what the protocol switch made of
\* the entry
AfterProtocol(list, idx, rules, p) ==
    IF p.err
    THEN [status |-> "error", rules |-> [rules EXCEPT !.Rules[idx] = p.entry]]
    ELSE AfterAction(list, idx, rules, ActionCase(list[idx + 1], p.entry))

RulesLoop(list, idx, rules) ==
    IF idx >= Len(list) THEN [status |-> "ok", rules |-> rules]
    ELSE IF idx >= MaxIngressRules THEN [status |-> "panic", rules |-> rules]
    ELSE AfterProtocol(list, idx, rules,
            ProtocolCase(list[idx + 1],
                         [rules.Rules[idx] EXCEPT !.RuleId = list[idx + 1].Order]))

\* lines 249-301: rules := bpfRulesValSt{}; NumRules = len(list); the loop
ParseRules(list) ==
    RulesLoop(list, 0, [ZeroRules EXCEPT !.NumRules = Len(list)])

(***************************************************************************)
(* net.ParseCIDR (Go 1.20: netip.ParseAddr, dtoi), as line 305 calls it    *)
(***************************************************************************)
HexLower == <<"a", "b", "c", "d", "e", "f">>
HexUpper == <<"A", "B", "C", "D", "E", "F">>

IsHex(c) == IsDigit(c) \/ (\E i \in 1..6 : HexLower[i] = c \/ HexUpper[i] = c)

HexVal(c) ==
    IF IsDigit(c) THEN DigitVal(c)
    ELSE 9 + (CHOOSE i \in 1..6 : HexLower[i] = c \/ HexUpper[i] = c)

Zeros(n) == [i \in 1..n |-> 0]

AddrError == [err |-> TRUE, is4 |-> FALSE, ip |-> Zeros(16)]

\* netip.parseIPv4: the character loop from 1-based position i, with the
\* fields stored so far, the value and digit count of the current field
RECURSIVE V4Loop(_, _, _, _, _)
V4Loop(s, i, fields, val, digLen) ==
    IF i > Len(s)
    THEN IF Len(fields) < 3 THEN [err |-> TRUE, f |-> <<>>]      \* too short
         ELSE [err |-> FALSE, f |-> Append(fields, val)]
    ELSE IF IsDigit(s[i])
    THEN IF digLen = 1 /\ val = 0 THEN [err |-> TRUE, f |-> <<>>] \* leading zero
         ELSE LET v == val * 10 + DigitVal(s[i])
              IN  IF v > 255 THEN [err |-> TRUE, f |-> <<>>]
                  ELSE V4Loop(s, i + 1, fields, v, digLen + 1)
    ELSE IF s[i] = "."
    THEN IF i = 1 \/ i = Len(s) \/ s[i-1] = "." THEN [err |-> TRUE, f |-> <<>>]
         ELSE IF Len(fields) = 3 THEN [err |-> TRUE, f |-> <<>>]  \* too long
         ELSE V4Loop(s, i + 1, Append(fields, val), 0, 0)
    ELSE [err |-> TRUE, f |-> <<>>]                               \* unexpected character

parseIPv4(s) == V4Loop(s, 1, <<>>, 0, 0)

\* the hex-number scan of netip.parseIPv6: digits consumed and their value
RECURSIVE HexScan(_, _, _)
HexScan(s, off, acc) ==
    IF off < Len(s) /\ IsHex(s[off + 1])
    THEN LET a == acc * 16 + HexVal(s[off + 1])
         IN  IF a > MaxUint16 THEN [err |-> TRUE, off |-> off, acc |-> a]
             ELSE HexScan(s, off + 1, a)
    ELSE [err |-> FALSE, off |-> off, acc |-> acc]

Drop(s, n) == SubSeq(s, n + 1, Len(s))

\* the state the field loop of netip.parseIPv6 is left in: s the text not
\* yet consumed, i the number of address bytes filled, ip the 16 bytes, ell
\* the byte index of "::" or -1
V6State(err, s, i, ip, ell) ==
    [err |-> err, s |-> s, i |-> i, ip |-> ip, ell |-> ell]

RECURSIVE V6Loop(_, _, _, _)

\* after a 16-bit chunk was saved: s1 is the text after the hex digits, i
\* counts the chunk. End of text, or a colon and more, or "::".
V6AfterChunk(s1, i, ip1, ellipsis) ==
    IF Len(s1) = 0 THEN V6State(FALSE, s1, i, ip1, ellipsis)
    ELSE IF s1[1] # ":" THEN V6State(TRUE, s1, i, ip1, ellipsis)
    ELSE IF Len(s1) = 1 THEN V6State(TRUE, s1, i, ip1, ellipsis)
    ELSE IF s1[2] = ":"
    THEN IF ellipsis >= 0 THEN V6State(TRUE, s1, i, ip1, ellipsis)
         ELSE IF Len(s1) = 2 THEN V6State(FALSE, <<>>, i, ip1, i)
         ELSE V6Loop(Drop(s1, 2), i, ip1, i)
    ELSE V6Loop(Drop(s1, 1), i, ip1, ellipsis)

\* a trailing dotted IPv4 address: v4 is what parseIPv4 returned for s
V6Embedded(s, i, ip, ellipsis, v4) ==
    IF v4.err THEN V6State(TRUE, s, i, ip, ellipsis)
    ELSE V6State(FALSE, <<>>, i + 4,
                 [ip EXCEPT ![i + 1] = v4.f[1], ![i + 2] = v4.f[2],
                            ![i + 3] = v4.f[3], ![i + 4] = v4.f[4]],
                 ellipsis)

\* one field: h is what the hex scan of s returned
V6Field(s, i, ip, ellipsis, h) ==
    IF h.err THEN V6State(TRUE, s, i, ip, ellipsis)
    ELSE IF h.off = 0 THEN V6State(TRUE, s, i, ip, ellipsis)
    ELSE IF h.off < Len(s) /\ s[h.off + 1] = "."
    THEN IF ellipsis < 0 /\ i # 12 THEN V6State(TRUE, s, i, ip, ellipsis)
         ELSE IF i + 4 > 16 THEN V6State(TRUE, s, i, ip, ellipsis)
         ELSE V6Embedded(s, i, ip, ellipsis, parseIPv4(s))
    ELSE V6AfterChunk(Drop(s, h.off), i + 2,
                      [ip EXCEPT ![i + 1] = h.acc \div 256, ![i + 2] = h.acc % 256],
                      ellipsis)

\* netip.parseIPv6: the field loop, for i < 16
V6Loop(s, i, ip, ellipsis) ==
    IF i >= 16 THEN V6State(FALSE, s, i, ip, ellipsis)
    ELSE V6Field(s, i, ip, ellipsis, HexScan(s, 0, 0))

\* the expansion of "::" after the loop: n zero bytes inserted at ellipsis
ExpandEllipsis(ip, i, ellipsis) ==
    [j \in 1..16 |->
        IF j <= ellipsis THEN ip[j]
        ELSE IF j <= ellipsis + (16 - i) THEN 0
        ELSE ip[j - (16 - i)]]

\* netip.parseIPv6 after the loop: r is the state the loop was left in
V6Finish(r) ==
    IF r.err THEN AddrError
    ELSE IF Len(r.s) # 0 THEN AddrError                  \* trailing garbage
    ELSE IF r.i < 16
    THEN IF r.ell < 0 THEN AddrError                     \* too short
         ELSE [err |-> FALSE, is4 |-> FALSE, ip |-> ExpandEllipsis(r.ip, r.i, r.ell)]
    ELSE IF r.ell >= 0 THEN AddrError                    \* "::" expands to nothing
    ELSE [err |-> FALSE, is4 |-> FALSE, ip |-> r.ip]

parseIPv6(in) ==
    IF Contains(in, "%") THEN AddrError                  \* a zone: rejected
    ELSE IF Len(in) >= 2 /\ in[1] = ":" /\ in[2] = ":"
    THEN IF Len(in) = 2 THEN [err |-> FALSE, is4 |-> FALSE, ip |-> Zeros(16)]
         ELSE V6Finish(V6Loop(Drop(in, 2), 0, Zeros(16), 0))
    ELSE V6Finish(V6Loop(in, 0, Zeros(16), -1))

\* an IPv4 address as Addr.As16 gives it: v4 is what parseIPv4 returned
Mapped4(v4) ==
    IF v4.err THEN AddrError
    ELSE [err |-> FALSE, is4 |-> TRUE, ip |-> Zeros(10) \o <<255, 255>> \o v4.f]

\* netip.ParseAddr, with the address as Addr.As16 gives it: the first of
\* '.', ':' and '%' in the text selects the parser
RECURSIVE ParseAddrFrom(_, _)
ParseAddrFrom(s, i) ==
    IF i > Len(s) THEN AddrError
    ELSE IF s[i] = "." THEN Mapped4(parseIPv4(s))
    ELSE IF s[i] = ":" THEN parseIPv6(s)
    ELSE IF s[i] = "%" THEN AddrError
    ELSE ParseAddrFrom(s, i + 1)

ParseAddr(s) == ParseAddrFrom(s, 1)

\* net.dtoi: the leading decimal digits of s; i digits consumed
RECURSIVE DtoiLoop(_, _, _)
DtoiLoop(s, i, n) ==
    IF i < Len(s) /\ IsDigit(s[i + 1])
    THEN LET n1 == n * 10 + DigitVal(s[i + 1])
         IN  IF n1 >= 16777215 THEN [ok |-> FALSE, n |-> 16777215, i |-> i]
             ELSE DtoiLoop(s, i + 1, n1)
    ELSE IF i = 0 THEN [ok |-> FALSE, n |-> 0, i |-> 0]
    ELSE [ok |-> TRUE, n |-> n, i |-> i]

dtoi(s) == DtoiLoop(s, 0, 0)

\* net.ParseCIDR: ip is the 16-byte address as written (host bits kept),
\* ones the mask length (what ipNet.Mask.Size() returns first)
CIDRError == [err |-> TRUE, ip |-> Zeros(16), ones |-> 0]

\* a is what ParseAddr returned for the text before the slash, d what dtoi
\* returned for the text after it, maskLen the length of that text
CheckCIDR(a, d, maskLen) ==
    IF a.err THEN CIDRError
    ELSE IF ~d.ok \/ d.i # maskLen \/ d.n < 0
            \/ d.n > (IF a.is4 THEN 32 ELSE 128) THEN CIDRError
    ELSE [err |-> FALSE, ip |-> a.ip, ones |-> d.n]

\* i is the position of the first slash, 0 when there is none
SplitCIDR(s, i) ==
    IF i = 0 THEN CIDRError
    ELSE CheckCIDR(ParseAddr(SubSeq(s, 1, i - 1)),
                   dtoi(SubSeq(s, i + 1, Len(s))),
                   Len(s) - i)

ParseCIDR(s) == SplitCIDR(s, IndexOf(s, "/"))

\* net.IP.To4 of a 16-byte address: its last four bytes when it is an
\* IPv4-mapped address, <<>> (nil) otherwise
To4(ip) ==
    IF (\A j \in 1..10 : ip[j] = 0) /\ ip[11] = 255 /\ ip[12] = 255
    THEN SubSeq(ip, 13, 16)
    ELSE <<>>

(***************************************************************************)
(* Map keys and the Map Store (the kernel LPM table)                       *)
(***************************************************************************)
\* var key bpfBpfLpmIpKeySt: the zero key
ZeroKey == [PrefixLen |-> 0, IpData |-> Zeros(16)]

\* lines 309-315: the key after one range has been written into it. key is
\* declared once, before the loop (line 250), so what the copy does not
\* overwrite is what the previous range left there.
MakeKey(key, c) ==
    [PrefixLen |-> c.ones,
     IpData    |-> IF To4(c.ip) # <<>>
                   THEN To4(c.ip) \o SubSeq(key.IpData, 5, 16)   \* copy of 4 bytes
                   ELSE c.ip]                                    \* copy of 16 bytes

RECURSIVE Pow2(_)
Pow2(n) == IF n = 0 THEN 1 ELSE 2 * Pow2(n - 1)

\* The entry a key names in the LPM table: the prefix length and the first
\* PrefixLen bits of the address; the bits after them are don't-care.
EntryId(key) ==
    [PrefixLen |-> key.PrefixLen,
     IpData    |-> [j \in 1..16 |->
                      LET kept == key.PrefixLen - 8 * (j - 1)
                      IN  IF kept >= 8 THEN key.IpData[j]
                          ELSE IF kept <= 0 THEN 0
                          ELSE key.IpData[j] - (key.IpData[j] % Pow2(8 - kept))]]

\* an insert that keeps the value of an entry that exists
MapUpdate_InsertOnly(tbl, key, value, refused) ==
    IF refused THEN [err |-> TRUE, table |-> tbl]
    ELSE [err |-> FALSE,
          table |-> [k \in (DOMAIN tbl) \cup {EntryId(key)} |->
                        IF k \in DOMAIN tbl THEN tbl[k] ELSE value]]

\* Map Store Upsert, Update(key, rules, ebpf.UpdateAny): replace-or-insert.
\* The kernel can refuse it (ENOSPC when the trie holds max_entries entries
\* and the key is new, ENOMEM, ...); refused tells that it does, and the
\* table is then left as it is.
MapUpdate(tbl, key, value, refused) ==
    IF refused THEN [err |-> TRUE, table |-> tbl]
    ELSE [err |-> FALSE,
          table |-> [k \in (DOMAIN tbl) \cup {EntryId(key)} |->
                        IF k = EntryId(key) THEN value ELSE tbl[k]]]

\* a delete that reports success and removes nothing
MapDelete_KeepEntry(tbl, key) ==
    IF EntryId(key) \in DOMAIN tbl
    THEN [err |-> FALSE, table |-> tbl]
    ELSE [err |-> TRUE, table |-> tbl]

\* Map Store Delete: a missing key is an error (ErrKeyNotExist)
MapDelete(tbl, key) ==
    IF EntryId(key) \in DOMAIN tbl
    THEN [err |-> FALSE, table |-> [k \in (DOMAIN tbl) \ {EntryId(key)} |-> tbl[k]]]
    ELSE [err |-> TRUE, table |-> tbl]

\* the entry id is a prefix of the key: it is no longer than the key and the
\* key's first id.PrefixLen bits are the entry's
Covers(id, key) ==
    /\ id.PrefixLen <= key.PrefixLen
    /\ EntryId([PrefixLen |-> id.PrefixLen, IpData |-> key.IpData]) = id

\* what a lookup finds when no entry covers the key (ENOENT)
Absent == [NumRules |-> -1, Rules |-> <<>>]

\* Map Store lookup: the table is a longest-prefix-match trie, and the lookup
\* of a key returns the value of the longest entry that covers the key, the
\* key's own entry when there is one
MapLookup(tbl, key) ==
    LET covering == {id \in DOMAIN tbl : Covers(id, key)}
    IN  IF covering = {} THEN Absent
        ELSE tbl[CHOOSE id \in covering :
                    \A o \in covering : o.PrefixLen <= id.PrefixLen]

EmptyTable == [k \in {} |-> ZeroRules]

(***************************************************************************)
(* makeIngressFwRulesMap                                                   *)
(***************************************************************************)
\* lines 304-328: for _, cidr := range SourceCIDRs, from 1-based position n
\* on. keys collects the keys handed to Delete/Update, in order. refuseAt is
\* the position of the range whose Update the kernel refuses, 0 for none.
RECURSIVE CidrLoop(_, _, _, _, _, _, _, _)

\* a delete branch that goes on to the next range whatever Delete returned
AfterDelete_IgnoreMissing(cidrs, n, k, tbl, keys, rules, isDelete, refuseAt, d) ==
    CidrLoop(cidrs, n + 1, k, d.table, Append(keys, k), rules, isDelete, refuseAt)

\* lines 317-321: d is what Delete returned for the key k
AfterDelete(cidrs, n, k, tbl, keys, rules, isDelete, refuseAt, d) ==
    IF d.err
    THEN [status |-> "error", stage |-> "delete", at |-> n,
          table |-> tbl, keys |-> Append(keys, k)]
    ELSE CidrLoop(cidrs, n + 1, k, d.table, Append(keys, k), rules, isDelete, refuseAt)

\* lines 322-326: u is what Update returned for the key k
AfterUpdate(cidrs, n, k, tbl, keys, rules, isDelete, refuseAt, u) ==
    IF u.err
    THEN [status |-> "error", stage |-> "update", at |-> n,
          table |-> tbl, keys |-> Append(keys, k)]
    ELSE CidrLoop(cidrs, n + 1, k, u.table, Append(keys, k), rules, isDelete, refuseAt)

\* lines 316-327: the map operation on the key k built for the n-th range
MapOperation(cidrs, n, k, tbl, keys, rules, isDelete, refuseAt) ==
    IF isDelete
    THEN AfterDelete(cidrs, n, k, tbl, keys, rules, isDelete, refuseAt,
                     MapDelete(tbl, k))
    ELSE AfterUpdate(cidrs, n, k, tbl, keys, rules, isDelete, refuseAt,
                     MapUpdate(tbl, k, rules, n = refuseAt))

\* lines 305-315: c is what ParseCIDR returned for the n-th range
AfterParseCIDR(cidrs, n, key, tbl, keys, rules, isDelete, refuseAt, c) ==
    IF c.err
    THEN [status |-> "error", stage |-> "cidr", at |-> n,
          table |-> tbl, keys |-> keys]
    ELSE MapOperation(cidrs, n, MakeKey(key, c), tbl, keys, rules, isDelete, refuseAt)

CidrLoop(cidrs, n, key, tbl, keys, rules, isDelete, refuseAt) ==
    IF n > Len(cidrs)
    THEN [status |-> "ok", stage |-> "none", at |-> 0, table |-> tbl, keys |-> keys]
    ELSE AfterParseCIDR(cidrs, n, key, tbl, keys, rules, isDelete, refuseAt,
                        ParseCIDR(cidrs[n]))

\* lines 303-329 after lines 249-301: r is what the rule loop returned
AfterRules(tbl, cidrs, isDelete, refuseAt, r) ==
    IF r.status # "ok"
    THEN [status |-> r.status, stage |-> "rules", at |-> 0,
          table |-> tbl, keys |-> <<>>]
    ELSE CidrLoop(cidrs, 1, ZeroKey, tbl, <<>>, r.rules, isDelete, refuseAt)

\* lines 247-330
makeIngressFwRulesMap(tbl, rulesList, cidrs, isDelete, refuseAt) ==
    AfterRules(tbl, cidrs, isDelete, refuseAt, ParseRules(rulesList))

(***************************************************************************)
(* The attachment manager: IngressNodeFwAttach and cleanup                 *)
(***************************************************************************)
\* the interfaces of the node; index 0 stands for "no such interface"
IfaceIndex(name) ==
    CASE name = "eth0" -> 2
      [] name = "eth1" -> 3
      [] name = "eth2" -> 5
      [] OTHER         -> 0

\* net.InterfaceByName
InterfaceByName(name) ==
    [err |-> IfaceIndex(name) = 0, Index |-> IfaceIndex(name), Name |-> name]

\* infc.pinPath, as NewIngNodeFwController sets it
pinDir == "/sys/fs/bpf" \o "/" \o "xdp_ingress_node_firewall_process"

\* path.Join(infc.pinPath, ifaceName+"_link")
LinkPinPath(ifaceName) == pinDir \o "/" \o (ifaceName \o "_link")

\* l.Unpin(); l.Close() for the n-th tracked link on, in registry order.
\* att is [links, xdp, pins, objsOpen, cleanups]. Unpin removes the pin file
\* of a link that is pinned; Close releases a link whose descriptor is open,
\* which unbinds the program from its interface. Errors are ignored.
RECURSIVE CleanupLoop(_, _)
CleanupLoop(att, n) ==
    IF n > Len(att.links) THEN att
    ELSE LET l == att.links[n]
         IN  CleanupLoop(
                [att EXCEPT
                   !.pins  = IF l.pinned THEN @ \ {l.path} ELSE @,
                   !.xdp   = IF l.open THEN @ \ {l.ifIndex} ELSE @,
                   !.links[n] = [l EXCEPT !.pinned = FALSE, !.open = FALSE]],
                n + 1)

\* a cleanup that leaves the objects open
cleanup_KeepObjs(att) ==
    [CleanupLoop(att, 1) EXCEPT !.cleanups = @ + 1]

\* lines 365-372: every tracked link, then infc.objs.Close()
cleanup(att) ==
    [CleanupLoop(att, 1) EXCEPT !.objsOpen = FALSE, !.cleanups = @ + 1]

\* link.AttachXDP: refused when the program is closed or the interface
\* already has a link bound (EBUSY)
AttachXDPFails(att, ifIndex) == ~att.objsOpen \/ ifIndex \in att.xdp

\* l.Pin(path): refused when the path exists, or when bpffs refuses (pinOk)
PinFails(att, path, pinOk) == path \in att.pins \/ ~pinOk

\* a failed lookup that undoes what the call and the calls before it attached
LookupFailed_Rollback(n, att) ==
    [status |-> "error", stage |-> "lookup", at |-> n,
     att |-> [CleanupLoop(att, 1) EXCEPT !.links = <<>>]]

\* lines 338-340: the return on a name that does not resolve; att is left
\* as the earlier iterations made it
LookupFailed(n, att) ==
    [status |-> "error", stage |-> "lookup", at |-> n, att |-> att]

\* lines 335-361: for _, ifaceName := range ifacesName, from position n on
RECURSIVE AttachLoop(_, _, _, _, _)
AttachLoop(names, n, att, isDelete, pinOk) ==
    IF n > Len(names)
    THEN [status |-> "ok", stage |-> "none", at |-> 0, att |-> att]
    ELSE LET iface    == InterfaceByName(names[n])
             lPinDir  == LinkPinPath(names[n])
             bound    == [att EXCEPT !.xdp = @ \cup {iface.Index}]
             l        == [name |-> iface.Name, ifIndex |-> iface.Index,
                          path |-> lPinDir, open |-> TRUE, pinned |-> TRUE]
             tracked  == [bound EXCEPT !.pins = @ \cup {lPinDir},
                                       !.links = Append(@, l)]
         IN  IF iface.err
             THEN LookupFailed(n, att)
             ELSE IF ~isDelete
             THEN IF AttachXDPFails(att, iface.Index)
                  THEN [status |-> "error", stage |-> "attach", at |-> n, att |-> att]
                  ELSE IF PinFails(bound, lPinDir, pinOk[n])
                  THEN [status |-> "error", stage |-> "pin", at |-> n, att |-> bound]
                  ELSE AttachLoop(names, n + 1, tracked, isDelete, pinOk)
             ELSE AttachLoop(names, n + 1, cleanup(att), isDelete, pinOk)

\* lines 333-362
IngressNodeFwAttachCall(names, att, isDelete, pinOk) ==
    AttachLoop(names, 1, att, isDelete, pinOk)

\* the interfaces bound by a link that nothing references: the link of an
\* attach whose Pin failed (lines 351-353 return before line 354 appends
\* it). Every other bound interface is bound by an open link of infc.links.
UnreferencedLinks(ls, bound) ==
    bound \ {ls[i].ifIndex : i \in {j \in 1..Len(ls) : ls[j].open}}

\* the finalizer of the descriptor of an unreferenced link closes it, and
\* closing a link that is not pinned unbinds the program from its interface
FinalizeLink(bound, ifIndex) == bound \ {ifIndex}

(***************************************************************************)
(* ingressNodeFwEvents, as IngressNodeFwRulesLoader sees it                *)
(***************************************************************************)
\* wait.PollImmediate(time.Second, 30*time.Second, ...) of line 39: the
\* interval and the timeout, in seconds
PollInterval == 1
PollTimeout == 30

\* the most attempts one poll makes: the immediate one, one per tick up to
\* the timeout, and the one made when the timeout closes the tick channel
MaxSinkAttempts == PollTimeout \div PollInterval + 2

\* the attempts a poll that never succeeds makes: the immediate one and the
\* one on the closed channel at least; a tick is sent without blocking and
\* is lost when the condition or the scheduler keeps the receiver away for
\* longer than the interval, and the tick that falls on the timeout is
\* delivered or not
PollLimits == 2..MaxSinkAttempts

\* lines 39-47: the condition is tried until it succeeds or the timeout has
\* passed. firstOk is the attempt at which syslog.New first succeeds, limit
\* the number of attempts the timeout leaves room for.
RECURSIVE PollImmediate(_, _, _)
PollImmediate(attempt, firstOk, limit) ==
    IF attempt = firstOk THEN [err |-> FALSE, attempts |-> attempt]
    ELSE IF attempt >= limit THEN [err |-> TRUE, attempts |-> attempt]
    ELSE PollImmediate(attempt + 1, firstOk, limit)

\* lines 27-32: signal.Notify(stopper, ...) and perf.NewReader: the reader is
\* open, the stopper channel is registered and empty, no task runs yet
OpenedReader ==
    [open |-> TRUE, stopper |-> FALSE, sink |-> FALSE,
     watcher |-> "none", reader |-> "none"]

\* lines 32-35: perf.NewReader returns a reader or an error; on the error
\* the function returns with no reader
NewReader(readerOk) ==
    IF readerOk THEN [err |-> FALSE, rds |-> <<OpenedReader>>]
    ELSE [err |-> TRUE, rds |-> <<>>]

\* what would start the two tasks whatever the poll returned
StartTasks_Unconditional(rd, poll) ==
    [rd EXCEPT !.sink = ~poll.err, !.watcher = "waiting", !.reader = "reading"]

\* lines 46-64 and 144-145: on a poll error the function returns; otherwise
\* the signal-watcher and the reader goroutines are started. What the
\* stopper channel holds by then stays in it. After the return on the error
\* nothing references rd (see Unreferenced).
StartTasks(rd, poll) ==
    IF poll.err THEN rd
    ELSE [rd EXCEPT !.sink = TRUE, !.watcher = "waiting", !.reader = "reading"]

\* a perf reader nothing references: no goroutine was started for it
Unreferenced(rd) == rd.open /\ rd.watcher = "none" /\ rd.reader = "none"

\* the finalizer perf.NewReader sets on the reader closes it
FinalizeReader(rd) == [rd EXCEPT !.open = FALSE]

\* lines 46-48 and 147: what the function returns after the poll: n
\* pipelines were started before, rd is the reader opened for this one
AfterPoll(n, rd, poll) ==
    [err |-> poll.err,
     attempts |-> poll.attempts,
     pipelines |-> IF poll.err THEN n ELSE n + 1,
     rd |-> StartTasks(rd, poll)]

(***************************************************************************)
(* gopacket.NewPacket(packet, layers.LayerTypeEthernet, gopacket.Default)  *)
(* and packet.Layer, as lines 108-143 use them                             *)
(***************************************************************************)
\* binary.LittleEndian.Uint16 of the two bytes at the 1-based position i of b
Uint16LE(b, i) == b[i] + 256 * b[i + 1]

\* data[n:] of a sequence of bytes, 0-based as in Go
From(data, n) == SubSeq(data, n + 1, Len(data))

Min(a, b) == IF a < b THEN a ELSE b

\* A Go byte slice as the decoders see it: b holds the bytes from the start
\* of the slice to the end of the array under it (its capacity), n is its
\* length. An index expression s[i] needs i < n; a slice expression s[i:j]
\* needs j within the capacity; s[i:] needs i <= n. A decoder that breaks
\* one of these panics; NewPacket recovers the panic and the decoding ends
\* with the layers added so far.
AsSlice(bytes) == [b |-> bytes, n |-> Len(bytes)]
Cap(s) == Len(s.b)
\* s[lo:]
SliceFrom(s, lo) == [b |-> SubSeq(s.b, lo + 1, Len(s.b)), n |-> s.n - lo]
\* s[:hi]
SliceTo(s, hi) == [b |-> s.b, n |-> hi]
\* binary.BigEndian.Uint16(s[i:i+2]), i 0-based
Uint16BE(s, i) == 256 * s.b[i + 1] + s.b[i + 2]

\* layers.EthernetTypeMetadata: the decoder of an EthernetType. "Other"
\* stands for the decoders after which none of the layers that lines 110-143
\* ask for can follow (ARP, LLDP, EAPOL, ..., and the unknown types).
EthernetTypeDecoder(t) ==
    CASE t = 0     -> "LLC"
      [] t = 2048  -> "IPv4"
      [] t = 34525 -> "IPv6"
      [] t = 25944 -> "Ethernet"                  \* 0x6558
      [] t \in {33024, 34984} -> "Dot1Q"          \* 0x8100, 0x88a8
      [] t = 34827 -> "PPP"                       \* 0x880b
      [] t \in {34915, 34916} -> "PPPoE"          \* 0x8863, 0x8864
      [] t \in {34887, 34888} -> "MPLS"           \* 0x8847, 0x8848
      [] t = 35006 -> "ERSPANII"                  \* 0x88be
      [] OTHER     -> "Other"

\* layers.IPProtocolMetadata: the decoder of an IPProtocol
IPProtocolDecoder(proto) ==
    CASE proto = IPPROTO_TCP    -> "TCP"
      [] proto = IPPROTO_UDP    -> "UDP"
      [] proto = IPPROTO_SCTP   -> "SCTP"
      [] proto = IPPROTO_ICMP   -> "ICMPv4"
      [] proto = IPPROTO_ICMPV6 -> "ICMPv6"
      [] proto \in {4, 94}      -> "IPv4"
      [] proto = 41             -> "IPv6"
      [] proto = 0              -> "IPv6HopByHop"
      [] proto = 43             -> "IPv6Routing"
      [] proto = 60             -> "IPv6Destination"
      [] proto = 47             -> "GRE"
      [] proto = 51             -> "IPSecAH"
      [] proto = 97             -> "EtherIP"
      [] proto = 137            -> "MPLS"
      [] OTHER                  -> "Other"

\* layers.PPPTypeMetadata
PPPTypeDecoder(t) ==
    CASE t = 33           -> "IPv4"               \* 0x0021
      [] t = 87           -> "IPv6"               \* 0x0057
      [] t \in {641, 643} -> "MPLS"               \* 0x0281, 0x0283
      [] OTHER            -> "Other"

\* the UDP ports that have a layer type of their own (udpPortLayerType)
UDPPorts == {53, 67, 68, 123, 546, 547, 623, 1812, 2152, 3784, 4789, 5060, 6081, 6343}

\* UDPPort.LayerType
UDPPortLayerType(port) ==
    CASE port = 4789       -> "VXLAN"
      [] port = 6081       -> "Geneve"
      [] port = 2152       -> "GTPv1U"
      [] port \in UDPPorts -> "Other"
      [] OTHER             -> "Payload"

\* UDP.NextLayerType: the layer type of the destination port, else that of
\* the source port
UDPPortDecoder(dstPort, srcPort) ==
    IF UDPPortLayerType(dstPort) # "Payload" THEN UDPPortLayerType(dstPort)
    ELSE UDPPortLayerType(srcPort)

\* the layers a decoder adds to the packet, the first layer first. A
\* decoder that fails ends the decoding (the DecodeFailure layer it leaves
\* is none of the layers asked for).
RECURSIVE DecodeLayers(_, _)

\* PacketBuilder.NextDecoder: nothing more is decoded when the payload of
\* the last layer is empty
NextDecoder(decoder, payload) ==
    IF payload.n = 0 THEN <<>> ELSE DecodeLayers(decoder, payload)

\* decodeEthernet: 14 bytes of header; a type below 0x0600 is a length, the
\* payload is cut to it and decoded as LLC
decodeEthernet(data) ==
    IF data.n < 14 THEN <<>>
    ELSE <<[type |-> "Ethernet"]>>
            \o (IF Uint16BE(data, 12) < 1536
                THEN NextDecoder(EthernetTypeDecoder(0),
                                 SliceTo(SliceFrom(data, 14),
                                         Min(data.n - 14, Uint16BE(data, 12))))
                ELSE NextDecoder(EthernetTypeDecoder(Uint16BE(data, 12)),
                                 SliceFrom(data, 14)))

\* LLC.DecodeFromBytes: the length of the header, 4 bytes for the I and S
\* formats of the control field
LLCHeaderLength(control) == IF control % 2 = 0 \/ control % 4 = 1 THEN 4 ELSE 3

\* decodeLLC: only the SNAP service access points lead on
decodeLLC(data) ==
    IF data.n < 3 \/ data.n < LLCHeaderLength(data.b[3]) THEN <<>>
    ELSE <<[type |-> "LLC"]>>
            \o (IF data.b[1] \in {170, 171} /\ data.b[2] \in {170, 171}
                THEN NextDecoder("SNAP", SliceFrom(data, LLCHeaderLength(data.b[3])))
                ELSE <<>>)

\* decodeSNAP
decodeSNAP(data) ==
    IF data.n < 5 THEN <<>>
    ELSE <<[type |-> "SNAP"]>>
            \o NextDecoder(EthernetTypeDecoder(Uint16BE(data, 3)), SliceFrom(data, 5))

\* decodeDot1Q
decodeDot1Q(data) ==
    IF data.n < 4 THEN <<>>
    ELSE <<[type |-> "Dot1Q"]>>
            \o NextDecoder(EthernetTypeDecoder(Uint16BE(data, 2)), SliceFrom(data, 4))

\* decodePPP after the address and control bytes (offset 2 when they are
\* there): a type of one byte when the first byte is odd, else of two
PPPAfterAddress(data, offset) ==
    IF data.n <= offset THEN <<>>
    ELSE IF data.b[offset + 1] % 2 = 1
    THEN <<[type |-> "PPP"]>>
            \o NextDecoder(PPPTypeDecoder(data.b[offset + 1]), SliceFrom(data, offset + 1))
    ELSE IF data.n <= offset + 1 THEN <<>>
    ELSE IF data.b[offset + 2] % 2 = 0 THEN <<>>
    ELSE <<[type |-> "PPP"]>>
            \o NextDecoder(PPPTypeDecoder(Uint16BE(data, offset)), SliceFrom(data, offset + 2))

\* decodePPP
decodePPP(data) ==
    IF data.n < 1 THEN <<>>
    ELSE IF data.b[1] # 255 THEN PPPAfterAddress(data, 0)
    ELSE IF data.n < 2 THEN <<>>
    ELSE PPPAfterAddress(data, IF data.b[2] = 3 THEN 2 ELSE 0)

\* decodePPPoE: the payload is data[6 : 6+Length], taken within the capacity
decodePPPoE(data) ==
    IF data.n < 2 \/ Cap(data) < 6 THEN <<>>
    ELSE IF 6 + Uint16BE(data, 4) > Cap(data) THEN <<>>
    ELSE <<[type |-> "PPPoE"]>>
            \o NextDecoder(IF data.b[2] = 0 THEN "PPP" ELSE "Other",
                           [b |-> SubSeq(data.b, 7, Len(data.b)),
                            n |-> Uint16BE(data, 4)])

\* decodeMPLS: 4 bytes a label; after the bottom of the stack the protocol
\* is guessed
decodeMPLS(data) ==
    IF data.n < 4 THEN <<>>
    ELSE <<[type |-> "MPLS"]>>
            \o NextDecoder(IF data.b[3] % 2 = 1 THEN "MPLSPayload" ELSE "MPLS",
                           SliceFrom(data, 4))

\* ProtocolGuessingDecoder.Decode: by the first byte
MPLSPayloadDecoder(first) ==
    CASE first \in 69..79  -> "IPv4"
      [] first \in 96..111 -> "IPv6"
      [] OTHER             -> "Other"

\* decodeERSPANII: 8 bytes of header, then an Ethernet frame
decodeERSPANII(data) ==
    IF data.n < 8 THEN <<>>
    ELSE <<[type |-> "ERSPANII"]>> \o NextDecoder("Ethernet", SliceFrom(data, 8))

\* decodeEtherIP: 2 bytes of header, then an Ethernet frame
decodeEtherIP(data) ==
    IF data.n < 2 THEN <<>>
    ELSE <<[type |-> "EtherIP"]>> \o NextDecoder("Ethernet", SliceFrom(data, 2))

\* IPv4.DecodeFromBytes: the options loop over data[20 : IHL*4]; FALSE when
\* it returns an error
RECURSIVE IPv4Options(_)
IPv4Options(opts) ==
    IF opts = <<>> THEN TRUE
    ELSE IF opts[1] = 0 THEN TRUE
    ELSE IF opts[1] = 1 THEN IPv4Options(Tail(opts))
    ELSE IF Len(opts) < 2 THEN FALSE
    ELSE IF Len(opts) < opts[2] \/ opts[2] <= 2 THEN FALSE
    ELSE IPv4Options(SubSeq(opts, opts[2] + 1, Len(opts)))

\* IPv4.DecodeFromBytes after the 20-byte check: the checks on the total
\* length and the header length, the options, then NextLayerType on the
\* payload
IPv4Payload(data, ihl, length, flagsfrags) ==
    IF length < 20 \/ ihl < 5 \/ ihl * 4 > length THEN <<>>
    ELSE IF data.n < length /\ ihl * 4 > data.n THEN <<>>
    ELSE IF ~IPv4Options(SubSeq(data.b, 21, ihl * 4)) THEN <<>>
    ELSE IF (flagsfrags \div 8192) % 2 = 1 \/ flagsfrags % 8192 # 0
    THEN <<>>                                                \* a fragment
    ELSE NextDecoder(IPProtocolDecoder(data.b[10]),
                     [b |-> From(data.b, ihl * 4),
                      n |-> Min(length, data.n) - ihl * 4])

\* decodeIPv4: the layer is added also when DecodeFromBytes fails
decodeIPv4(data) ==
    IF data.n < 20 THEN <<[type |-> "IPv4", SrcIP |-> <<>>, DstIP |-> <<>>]>>
    ELSE <<[type |-> "IPv4", SrcIP |-> SubSeq(data.b, 13, 16),
            DstIP |-> SubSeq(data.b, 17, 20)]>>
            \o IPv4Payload(data, data.b[1] % 16,
                           IF Uint16BE(data, 2) = 0 THEN data.n % 65536
                           ELSE Uint16BE(data, 2),
                           Uint16BE(data, 6))

\* decodeIPv6ExtensionBase: the length of the extension header, -1 when the
\* data is shorter
IPv6ExtensionLength(data) ==
    IF data.n < 2 THEN -1
    ELSE IF data.n < data.b[2] * 8 + 8 THEN -1
    ELSE data.b[2] * 8 + 8

\* the TLV options of a hop-by-hop or destination header from offset to the
\* end of the header; jumbo tells of the first jumbogram option (type
\* 0xC2): "none", "ok" (4 bytes, a length above 65535) or "bad"
RECURSIVE IPv6Options(_, _, _, _)
IPv6Options(data, offset, actualLength, jumbo) ==
    IF offset >= actualLength THEN [err |-> FALSE, jumbo |-> jumbo]
    ELSE IF data.n - offset < 2 THEN [err |-> TRUE, jumbo |-> jumbo]
    ELSE IF data.b[offset + 1] = 0
    THEN IPv6Options(data, offset + 1, actualLength, jumbo)
    ELSE IF data.n - offset < data.b[offset + 2] + 2 THEN [err |-> TRUE, jumbo |-> jumbo]
    ELSE IPv6Options(data, offset + data.b[offset + 2] + 2, actualLength,
                     IF data.b[offset + 1] # 194 \/ jumbo # "none" THEN jumbo
                     ELSE IF data.b[offset + 2] # 4 THEN "bad"
                     ELSE IF data.b[offset + 3] = 0 /\ data.b[offset + 4] = 0 THEN "bad"
                     ELSE "ok")

\* decodeIPv6HopByHop and decodeIPv6Destination: the layer is added also
\* when DecodeFromBytes fails
IPv6OptionsHeader(type, data) ==
    <<[type |-> type]>>
        \o (IF IPv6ExtensionLength(data) < 0 THEN <<>>
            ELSE IF IPv6Options(data, 2, IPv6ExtensionLength(data), "none").err THEN <<>>
            ELSE NextDecoder(IPProtocolDecoder(data.b[1]),
                             SliceFrom(data, IPv6ExtensionLength(data))))

decodeIPv6HopByHop(data) == IPv6OptionsHeader("IPv6HopByHop", data)

decodeIPv6Destination(data) == IPv6OptionsHeader("IPv6Destination", data)

\* decodeIPv6Routing: only type 0 with whole addresses is decoded
decodeIPv6Routing(data) ==
    IF IPv6ExtensionLength(data) < 0 THEN <<>>
    ELSE IF data.b[3] # 0 THEN <<>>
    ELSE IF (IPv6ExtensionLength(data) - 8) % 16 # 0 THEN <<>>
    ELSE <<[type |-> "IPv6Routing"]>>
            \o NextDecoder(IPProtocolDecoder(data.b[1]),
                           SliceFrom(data, IPv6ExtensionLength(data)))

\* decodeIPSecAH: the header is (HeaderLength + 2) * 4 bytes
decodeIPSecAH(data) ==
    IF data.n < 12 THEN <<>>
    ELSE IF data.n < (data.b[2] + 2) * 4 \/ (data.b[2] + 2) * 4 < 12 THEN <<>>
    ELSE <<[type |-> "IPSecAH"]>>
            \o NextDecoder(IPProtocolDecoder(data.b[1]),
                           SliceFrom(data, (data.b[2] + 2) * 4))

\* IPv6.DecodeFromBytes with a hop-by-hop header, which is decoded as part
\* of the IPv6 layer: hbh is data[40:], opts what its options gave. The next
\* decoder is handed the payload of the hop-by-hop layer, the last layer
\* added.
IPv6AfterHopByHop(hbh, length, opts) ==
    IF opts.err THEN <<>>
    ELSE <<[type |-> "IPv6HopByHop"]>>
            \o (IF opts.jumbo = "bad" THEN <<>>
                ELSE IF (opts.jumbo = "ok") # (length = 0) THEN <<>>
                ELSE NextDecoder(IPProtocolDecoder(hbh.b[1]),
                                 SliceFrom(hbh, IPv6ExtensionLength(hbh))))

\* IPv6.DecodeFromBytes after the 40-byte check
IPv6Payload(data, length, nextHeader) ==
    IF nextHeader = 0
    THEN IF IPv6ExtensionLength(SliceFrom(data, 40)) < 0 THEN <<>>
         ELSE IPv6AfterHopByHop(SliceFrom(data, 40), length,
                                IPv6Options(SliceFrom(data, 40), 2,
                                            IPv6ExtensionLength(SliceFrom(data, 40)),
                                            "none"))
    ELSE IF length = 0 THEN <<>>
    ELSE NextDecoder(IPProtocolDecoder(nextHeader),
                     SliceTo(SliceFrom(data, 40), Min(length, data.n - 40)))

\* decodeIPv6: 40 bytes of header, the payload length at bytes 4-5, the next
\* header at byte 6; the layer is added also when DecodeFromBytes fails
decodeIPv6(data) ==
    IF data.n < 40 THEN <<[type |-> "IPv6", SrcIP |-> <<>>, DstIP |-> <<>>]>>
    ELSE <<[type |-> "IPv6", SrcIP |-> SubSeq(data.b, 9, 24),
            DstIP |-> SubSeq(data.b, 25, 40)]>>
            \o IPv6Payload(data, Uint16BE(data, 4), data.b[7])

\* GRE.DecodeFromBytes: the source route entries from offset on, up to the
\* entry of family 0 and length 0; the offset after them, -1 when an index
\* is out of range
RECURSIVE GRERouting(_, _)
GRERouting(data, offset) ==
    IF offset + 3 >= data.n THEN -1
    ELSE IF offset + 4 + data.b[offset + 4] > Cap(data) THEN -1
    ELSE IF Uint16BE(data, offset) = 0 /\ data.b[offset + 4] = 0 THEN offset + 4
    ELSE GRERouting(data, offset + 4 + data.b[offset + 4])

\* GRE.DecodeFromBytes: the length of the header by the flags of its first
\* two bytes: checksum or routing, key, sequence number, then the source
\* route entries, then the acknowledgment number; -1 when an index is out
\* of range
GREAfterRouting(offset, ack) ==
    IF offset < 0 THEN -1 ELSE offset + (IF ack THEN 4 ELSE 0)

GREHeaderLength(data) ==
    GREAfterRouting(
        IF (data.b[1] \div 64) % 2 = 1
        THEN GRERouting(data, 8 + (IF (data.b[1] \div 32) % 2 = 1 THEN 4 ELSE 0)
                                + (IF (data.b[1] \div 16) % 2 = 1 THEN 4 ELSE 0))
        ELSE 4 + (IF data.b[1] >= 128 THEN 4 ELSE 0)
               + (IF (data.b[1] \div 32) % 2 = 1 THEN 4 ELSE 0)
               + (IF (data.b[1] \div 16) % 2 = 1 THEN 4 ELSE 0),
        data.b[2] >= 128)

\* decodeGRE: the protocol is an EthernetType
GREPayload(data, offset) ==
    IF offset < 0 \/ offset > data.n THEN <<>>
    ELSE <<[type |-> "GRE"]>>
            \o NextDecoder(EthernetTypeDecoder(Uint16BE(data, 2)), SliceFrom(data, offset))

decodeGRE(data) ==
    IF data.n < 2 \/ Cap(data) < 4 THEN <<>>
    ELSE GREPayload(data, GREHeaderLength(data))

\* decodeTCP: the layer is added also when the header is short; the payload
\* is not decoded further
decodeTCP(data) ==
    IF data.n < 20 THEN <<[type |-> "TCP", SrcPort |-> 0, DstPort |-> 0]>>
    ELSE <<[type |-> "TCP", SrcPort |-> Uint16BE(data, 0), DstPort |-> Uint16BE(data, 2)]>>

\* UDP.DecodeFromBytes after the 8-byte check: the length field decides the
\* payload, the ports decide its decoder
UDPPayload(data, length) ==
    IF length >= 8
    THEN NextDecoder(UDPPortDecoder(Uint16BE(data, 2), Uint16BE(data, 0)),
                     SliceTo(SliceFrom(data, 8), Min(length, data.n) - 8))
    ELSE IF length = 0
    THEN NextDecoder(UDPPortDecoder(Uint16BE(data, 2), Uint16BE(data, 0)),
                     SliceFrom(data, 8))
    ELSE <<>>

\* decodeUDP: the layer is added also when DecodeFromBytes fails
decodeUDP(data) ==
    IF data.n < 8 THEN <<[type |-> "UDP", SrcPort |-> 0, DstPort |-> 0]>>
    ELSE <<[type |-> "UDP", SrcPort |-> Uint16BE(data, 0), DstPort |-> Uint16BE(data, 2)]>>
            \o UDPPayload(data, Uint16BE(data, 4))

\* decodeVXLAN: 8 bytes of header, then an Ethernet frame
decodeVXLAN(data) ==
    IF data.n < 8 THEN <<>>
    ELSE <<[type |-> "VXLAN"]>> \o NextDecoder("Ethernet", SliceFrom(data, 8))

\* Geneve.DecodeFromBytes: the options from offset (a uint8) on while length
\* is above 0; the offset after them, -1 when one is cut short
RECURSIVE GeneveOptions(_, _, _)
GeneveOptions(data, offset, length) ==
    IF length <= 0 THEN offset
    ELSE IF data.n - offset < 4 THEN -1
    ELSE IF data.n - offset < (data.b[offset + 4] % 16) * 4 + 4 THEN -1
    ELSE GeneveOptions(data, (offset + (data.b[offset + 4] % 16) * 4 + 4) % 256,
                       length - ((data.b[offset + 4] % 16) * 4 + 4))

\* decodeGeneve: the protocol is an EthernetType
GenevePayload(data, offset) ==
    IF offset < 0 \/ offset > data.n THEN <<>>
    ELSE <<[type |-> "Geneve"]>>
            \o NextDecoder(EthernetTypeDecoder(Uint16BE(data, 2)), SliceFrom(data, offset))

decodeGeneve(data) ==
    IF data.n < 7 \/ data.n < (data.b[1] % 64) * 4 + 7 THEN <<>>
    ELSE GenevePayload(data, GeneveOptions(data, 8, (data.b[1] % 64) * 4))

\* GTPv1U.DecodeFromBytes: the extension headers from cIndex on; the index
\* after them, -1 on an error or an index out of range
RECURSIVE GTPExtensions(_, _)
GTPExtensions(data, cIndex) ==
    IF cIndex >= data.n THEN -1
    ELSE IF data.b[cIndex + 1] = 0 THEN -1
    ELSE IF data.n < (cIndex + data.b[cIndex + 1] * 4) % 65536 THEN -1
    ELSE IF (cIndex + data.b[cIndex + 1] * 4) % 65536 < cIndex + 2 THEN -1
    ELSE IF data.b[(cIndex + data.b[cIndex + 1] * 4) % 65536] = 0
    THEN (cIndex + data.b[cIndex + 1] * 4) % 65536
    ELSE GTPExtensions(data, (cIndex + data.b[cIndex + 1] * 4) % 65536)

\* GTPv1U.DecodeFromBytes: the length of the header, -1 on an error
GTPHeaderLength(data) ==
    IF data.n < 8 THEN -1
    ELSE IF data.n < (8 + Uint16BE(data, 2)) % 65536 THEN -1
    ELSE IF data.b[1] % 8 = 0 THEN 8
    ELSE IF data.n < 12 THEN -1
    ELSE IF (data.b[1] \div 4) % 2 = 1 THEN GTPExtensions(data, 12)
    ELSE 12

\* decodeGTPv1u: the payload is IPv4 or IPv6 by its first half byte, else PPP
GTPPayload(data, offset) ==
    IF offset < 0 THEN <<>>
    ELSE <<[type |-> "GTPv1U"]>>
            \o (IF data.n = offset THEN <<>>
                ELSE NextDecoder(CASE data.b[offset + 1] \div 16 = 4 -> "IPv4"
                                   [] data.b[offset + 1] \div 16 = 6 -> "IPv6"
                                   [] OTHER -> "PPP",
                                 SliceFrom(data, offset)))

decodeGTPv1u(data) == GTPPayload(data, GTPHeaderLength(data))

\* decodeSCTP: 12 bytes of common header; the chunks add no layer asked for
decodeSCTP(data) ==
    IF data.n < 12 THEN <<[type |-> "SCTP", SrcPort |-> 0, DstPort |-> 0]>>
    ELSE <<[type |-> "SCTP", SrcPort |-> Uint16BE(data, 0), DstPort |-> Uint16BE(data, 2)]>>

\* decodeICMPv4: no layer when the 8-byte header is short
decodeICMPv4(data) ==
    IF data.n < 8 THEN <<>>
    ELSE <<[type |-> "ICMPv4", Type |-> data.b[1], Code |-> data.b[2]]>>

\* decodeICMPv6: no layer when the 4-byte header is short
decodeICMPv6(data) ==
    IF data.n < 4 THEN <<>>
    ELSE <<[type |-> "ICMPv6", Type |-> data.b[1], Code |-> data.b[2]]>>

DecodeLayers(decoder, data) ==
    CASE decoder = "Ethernet"        -> decodeEthernet(data)
      [] decoder = "LLC"             -> decodeLLC(data)
      [] decoder = "SNAP"            -> decodeSNAP(data)
      [] decoder = "Dot1Q"           -> decodeDot1Q(data)
      [] decoder = "PPP"             -> decodePPP(data)
      [] decoder = "PPPoE"           -> decodePPPoE(data)
      [] decoder = "MPLS"            -> decodeMPLS(data)
      [] decoder = "MPLSPayload"     ->
            DecodeLayers(MPLSPayloadDecoder(data.b[1]), data)
      [] decoder = "ERSPANII"        -> decodeERSPANII(data)
      [] decoder = "EtherIP"         -> decodeEtherIP(data)
      [] decoder = "IPv4"            -> decodeIPv4(data)
      [] decoder = "IPv6"            -> decodeIPv6(data)
      [] decoder = "IPv6HopByHop"    -> decodeIPv6HopByHop(data)
      [] decoder = "IPv6Destination" -> decodeIPv6Destination(data)
      [] decoder = "IPv6Routing"     -> decodeIPv6Routing(data)
      [] decoder = "IPSecAH"         -> decodeIPSecAH(data)
      [] decoder = "GRE"             -> decodeGRE(data)
      [] decoder = "TCP"             -> decodeTCP(data)
      [] decoder = "UDP"             -> decodeUDP(data)
      [] decoder = "VXLAN"           -> decodeVXLAN(data)
      [] decoder = "Geneve"          -> decodeGeneve(data)
      [] decoder = "GTPv1U"          -> decodeGTPv1u(data)
      [] decoder = "SCTP"            -> decodeSCTP(data)
      [] decoder = "ICMPv4"          -> decodeICMPv4(data)
      [] decoder = "ICMPv6"          -> decodeICMPv6(data)
      [] OTHER                       -> <<>>

\* gopacket.NewPacket(packet, layers.LayerTypeEthernet, gopacket.Default):
\* the bytes are copied, so the capacity is the length
NewPacket(packet) == DecodeLayers("Ethernet", AsSlice(packet))

\* decodePacket.Layer(t): the first layer of type t, as a sequence of at
\* most one layer
Layer(ls, t) ==
    IF \E i \in 1..Len(ls) : ls[i].type = t
    THEN <<ls[CHOOSE i \in 1..Len(ls) :
                 ls[i].type = t /\ \A j \in 1..(i - 1) : ls[j].type # t]>>
    ELSE <<>>

(***************************************************************************)
(* The reader loop of ingressNodeFwEvents: one record                      *)
(***************************************************************************)
\* unsafe.Sizeof(BpfEventHdrSt{}): two uint16, a uint8, a byte of padding, a
\* uint16
eventHdrSize == 8

\* the interfaces of the node
Interfaces == {"eth0", "eth1", "eth2"}

\* net.InterfaceByIndex
InterfaceByIndex(index) ==
    IF \E name \in Interfaces : IfaceIndex(name) = index
    THEN [err |-> FALSE, Name |-> CHOOSE name \in Interfaces : IfaceIndex(name) = index]
    ELSE [err |-> TRUE, Name |-> ""]

\* lines 150-159
convertXdpActionToString(action) ==
    CASE action = xdpDeny  -> "Drop"
      [] action = xdpAllow -> "Allow"
      [] OTHER             -> "Invalid action " \o ToString(action)

\* lines 90-93: the header fields, by position in the 8 bytes of buf
EventHdr(buf) ==
    [IfId      |-> Uint16LE(buf, 1),
     RuleId    |-> Uint16LE(buf, 3),
     Action    |-> buf[5],
     PktLength |-> Uint16LE(buf, 7)]

\* line 85: io.ReadFull(bytes.NewBuffer(record.RawSample), buf[:])
ReadFull(raw) ==
    IF Len(raw) < eventHdrSize THEN [err |-> TRUE, buf |-> <<>>]
    ELSE [err |-> FALSE, buf |-> SubSeq(raw, 1, eventHdrSize)]

\* a read that takes the bytes that are there when fewer than n are left
BinaryRead_Short(data, n) ==
    [err |-> FALSE, packet |-> SubSeq(data, 1, Min(n, Len(data)))]

\* line 96: binary.Read of exactly n bytes from data into packet
BinaryRead(data, n) ==
    IF Len(data) < n THEN [err |-> TRUE, packet |-> <<>>]
    ELSE [err |-> FALSE, packet |-> SubSeq(data, 1, n)]

\* lines 110-143: one line for the first layer of each type that is there,
\* in the order the code asks for them
AddrLine(kind, l) ==
    IF l = <<>> THEN <<>>
    ELSE <<[line |-> kind, src |-> l[1].SrcIP, dst |-> l[1].DstIP]>>

PortLine(kind, l) ==
    IF l = <<>> THEN <<>>
    ELSE <<[line |-> kind, srcPort |-> l[1].SrcPort, dstPort |-> l[1].DstPort]>>

IcmpLine(kind, l) ==
    IF l = <<>> THEN <<>>
    ELSE <<[line |-> kind, type |-> l[1].Type, code |-> l[1].Code]>>

LayerLines(decodePacket) ==
    AddrLine("ipv4", Layer(decodePacket, "IPv4"))
        \o AddrLine("ipv6", Layer(decodePacket, "IPv6"))
        \o PortLine("tcp", Layer(decodePacket, "TCP"))
        \o PortLine("udp", Layer(decodePacket, "UDP"))
        \o PortLine("sctp", Layer(decodePacket, "SCTP"))
        \o IcmpLine("icmpv4", Layer(decodePacket, "ICMPv4"))
        \o IcmpLine("icmpv6", Layer(decodePacket, "ICMPv6"))

\* lines 106-107: the summary line
SummaryLine(eventHdr, iface) ==
    [line |-> "summary", ruleId |-> eventHdr.RuleId,
     action |-> convertXdpActionToString(eventHdr.Action),
     len |-> eventHdr.PktLength, if |-> iface.Name]

\* what one turn of the loop wrote: audit lines to the syslog writer,
\* diagnostics to the process log
Skipped(what, n) == [audit |-> <<>>, diag |-> <<[line |-> what, n |-> n]>>]

\* lines 101-143: iface is what InterfaceByIndex returned
AfterLookup(eventHdr, packet, iface) ==
    IF iface.err THEN Skipped("lookup network iface", eventHdr.IfId)
    ELSE [audit |-> <<SummaryLine(eventHdr, iface)>> \o LayerLines(NewPacket(packet)),
          diag  |-> <<>>]

\* lines 96-100: p is what binary.Read returned for the bytes after the header
AfterPacket(eventHdr, p) ==
    IF p.err THEN Skipped("Parsing perf event packet header", eventHdr.PktLength)
    ELSE AfterLookup(eventHdr, p.packet, InterfaceByIndex(eventHdr.IfId))

\* lines 85-96: h is what io.ReadFull returned for the header
AfterHeader(raw, h) ==
    IF h.err THEN Skipped("Parsing perf event header err", Len(raw))
    ELSE AfterPacket(EventHdr(h.buf),
                     BinaryRead(From(raw, eventHdrSize), EventHdr(h.buf).PktLength))

\* lines 84-143: a record without lost samples
DecodeRecord(record) == AfterHeader(record.RawSample, ReadFull(record.RawSample))

\* a lost-sample record that is decoded all the same
DroppedSamples_Decoded(record) ==
    [audit |-> DecodeRecord(record).audit,
     diag  |-> <<[line |-> "dropped samples", n |-> record.LostSamples]>>]

\* lines 79-82
DroppedSamples(record) == Skipped("dropped samples", record.LostSamples)

\* lines 79-143: the body of the loop for a record Read returned
ProcessRecord(record) ==
    IF record.LostSamples # 0 THEN DroppedSamples(record)
    ELSE DecodeRecord(record)

\* a loop that also ends on a read error other than ErrClosed
ReaderAfter_ExitOnError(readErr) ==
    IF readErr = "none" THEN "reading" ELSE "exited"

\* lines 69-77: return on perf.ErrClosed, continue on every other outcome
ReaderAfter(readErr) ==
    IF readErr = "closed" THEN "exited" ELSE "reading"

\* lines 49-59: the signal-watcher has received from stopper, calls
\* rd.Close() and ends. closeOk tells what Close returns: nil, and the reader
\* is closed; or an error (the wake-up of the reader's poller failed), which
\* is logged (line 56) before the return of line 57, and the reader is left
\* open.
CloseReader(rd, closeOk) ==
    [rd EXCEPT !.stopper = FALSE,
               !.open = IF closeOk THEN FALSE ELSE @,
               !.watcher = "done"]

(***************************************************************************)
(* Inputs                                                                  *)
(***************************************************************************)
\* all texts over alphabet of length at most n
TextsUpTo(alphabet, n) == UNION {[1..k -> alphabet] : k \in 0..n}

MaxPortLen == 5

PortAlphabet == {"0", "3", "5", "6", "-", "+", "x"}

T80to443     == <<"8", "0", "-", "4", "4", "3">>
T53          == <<"5", "3">>
T0to65535    == <<"0", "-", "6", "5", "5", "3", "5">>
T80dash      == <<"8", "0", "-">>
T65536       == <<"6", "5", "5", "3", "6">>
T22          == <<"2", "2">>

PortTexts ==
    TextsUpTo(PortAlphabet, MaxPortLen)
    \cup {T80to443, T0to65535, T80dash, T22,
          <<"6", "5", "5", "3", "5", "-", "6", "5", "5", "3", "5">>,
          <<"6", "5", "5", "3", "6", "-", "6", "5", "5", "3", "5">>,
          <<"0", "-", "6", "5", "5", "3", "6">>,
          <<"8", "0", "-", "4", "4", "3", "-", "8", "0", "8", "0">>,
          <<"8", "0", " ", "-", "4", "4", "3">>}

\* IngressNodeFirewallProtocolRule values
RuleTCP    == [Order |-> 1, Protocol |-> "TCP", Ports |-> T80to443,
               ICMPType |-> 0, ICMPCode |-> 0, Action |-> "Allow"]
RuleUDP    == [Order |-> 2, Protocol |-> "UDP", Ports |-> T53,
               ICMPType |-> 0, ICMPCode |-> 0, Action |-> "Deny"]
RuleSCTP   == [Order |-> 3, Protocol |-> "SCTP", Ports |-> T0to65535,
               ICMPType |-> 0, ICMPCode |-> 0, Action |-> "Allow"]
RuleICMP   == [Order |-> 4, Protocol |-> "ICMP", Ports |-> <<>>,
               ICMPType |-> 8, ICMPCode |-> 0, Action |-> "Deny"]
RuleICMPv6 == [Order |-> 5, Protocol |-> "ICMPv6", Ports |-> <<>>,
               ICMPType |-> 128, ICMPCode |-> 1, Action |-> "Allow"]
RuleTCP22  == [Order |-> 6, Protocol |-> "TCP", Ports |-> T22,
               ICMPType |-> 0, ICMPCode |-> 0, Action |-> "Deny"]
\* malformed port text, out-of-range port, unknown protocol, unknown action
RuleBadPorts  == [RuleTCP EXCEPT !.Order = 7, !.Ports = T80dash]
RuleBadRange  == [RuleUDP EXCEPT !.Order = 8, !.Ports = T65536]
RuleBadProto  == [RuleTCP EXCEPT !.Order = 9, !.Protocol = "GRE"]
RuleBadAction == [RuleTCP22 EXCEPT !.Order = 10, !.Action = "Reject"]

RuleDomain ==
    {RuleTCP, RuleUDP, RuleSCTP, RuleICMP, RuleICMPv6, RuleTCP22,
     RuleBadPorts, RuleBadRange, RuleBadProto, RuleBadAction}

\* SpecCompile: every rule list of at most MaxRules rules
RuleLists == TextsUpTo(RuleDomain, MaxRules)

\* the rule lists the reconcile calls of SpecRules carry: two valid lists
\* with different compiled values, one list per kind of invalid rule (first,
\* last), and lists one longer than the array, valid and with a bad last rule
OverCapacity(lastRule) ==
    [i \in 1..MaxRules |-> IF i = MaxRules THEN lastRule ELSE RuleTCP]

CallRuleLists ==
    {<<RuleTCP>>, <<RuleICMP, RuleUDP>>,
     <<RuleBadPorts>>, <<RuleTCP, RuleBadProto>>, <<RuleBadAction, RuleTCP>>,
     OverCapacity(RuleUDP), OverCapacity(RuleBadRange)}

\* SourceCIDRs texts: "10.0.0.0/8", "10.1.2.3/16" (a range inside the first,
\* written with host bits), "fd00::1/64" and the malformed "10.0.0.256/8"
Cidr10  == <<"1", "0", ".", "0", ".", "0", ".", "0", "/", "8">>
Cidr10s == <<"1", "0", ".", "1", ".", "2", ".", "3", "/", "1", "6">>
CidrFd  == <<"f", "d", "0", "0", ":", ":", "1", "/", "6", "4">>
CidrBad == <<"1", "0", ".", "0", ".", "0", ".", "2", "5", "6", "/", "8">>

CidrDomain == {Cidr10, Cidr10s, CidrFd, CidrBad}

MaxCidrs == 3

CidrLists == TextsUpTo(CidrDomain, MaxCidrs)

\* interface names handed to IngressNodeFwAttach
NameDomain == {"eth0", "eth1", "nonexistent0"}

MaxNames == 2

NameLists == TextsUpTo(NameDomain, MaxNames)

\* bound on the event pipelines one behaviour starts
MaxPipelines == 2

\* the two bytes of n, most and least significant byte first
BE16(n) == <<n \div 256, n % 256>>
LE16(n) == <<n % 256, n \div 256>>

\* packet headers as the wire carries them
EthHdr(etherType) == <<2, 0, 0, 0, 0, 1, 2, 0, 0, 0, 0, 2>> \o BE16(etherType)

IPv4Hdr(proto, payloadLen) ==
    <<69, 0>> \o BE16(20 + payloadLen) \o <<0, 1, 64, 0, 64, proto, 0, 0>>
        \o <<10, 0, 0, 1>> \o <<10, 0, 0, 2>>

IPv6Hdr(next, payloadLen) ==
    <<96, 0, 0, 0>> \o BE16(payloadLen) \o <<next, 64>>
        \o <<253, 0, 0, 0, 0, 0, 0, 0, 0, 0, 0, 0, 0, 0, 0, 1>>
        \o <<253, 0, 0, 0, 0, 0, 0, 0, 0, 0, 0, 0, 0, 0, 0, 2>>

TCPHdr(srcPort, dstPort) ==
    BE16(srcPort) \o BE16(dstPort) \o <<0, 0, 0, 1, 0, 0, 0, 0, 80, 2, 255, 255, 0, 0, 0, 0>>

UDPHdr(srcPort, dstPort, payloadLen) ==
    BE16(srcPort) \o BE16(dstPort) \o BE16(8 + payloadLen) \o <<0, 0>>

SCTPHdr(srcPort, dstPort) ==
    BE16(srcPort) \o BE16(dstPort) \o <<0, 0, 0, 0, 0, 0, 0, 0>>

ICMPv4Echo == <<8, 0, 0, 0, 0, 1, 0, 1>>
ICMPv6Echo == <<128, 0, 0, 0, 0, 1, 0, 1>>
VXLANHdr   == <<8, 0, 0, 0, 0, 0, 42, 0>>

\* the packets of the event records
PktTCP4  == EthHdr(2048) \o IPv4Hdr(IPPROTO_TCP, 20) \o TCPHdr(40000, 443)
PktUDP6  == EthHdr(34525) \o IPv6Hdr(IPPROTO_UDP, 8) \o UDPHdr(40000, 8080, 0)
PktICMP4 == EthHdr(2048) \o IPv4Hdr(IPPROTO_ICMP, 8) \o ICMPv4Echo
PktICMP6 == EthHdr(34525) \o IPv6Hdr(IPPROTO_ICMPV6, 8) \o ICMPv6Echo
PktSCTP4 == EthHdr(2048) \o IPv4Hdr(IPPROTO_SCTP, 12) \o SCTPHdr(40000, 9000)
\* a frame of a type that has no network layer
PktOther == EthHdr(34997) \o <<1, 2>>
\* IPv6 carried in IPv4 (protocol 41)
Pkt6in4  == EthHdr(2048) \o IPv4Hdr(41, 60) \o IPv6Hdr(IPPROTO_TCP, 20) \o TCPHdr(40000, 443)
\* an Ethernet frame carried in VXLAN over UDP
PktVXLAN ==
    EthHdr(2048) \o IPv4Hdr(IPPROTO_UDP, 70) \o UDPHdr(40000, 4789, 62)
        \o VXLANHdr \o PktTCP4

\* a VLAN tag before IPv4
PktVlan  ==
    SubSeq(EthHdr(33024), 1, 14) \o <<0, 100>> \o BE16(2048)
        \o IPv4Hdr(IPPROTO_TCP, 20) \o TCPHdr(40000, 443)
\* an IPv6 destination-options header before TCP
PktDstOpts ==
    EthHdr(34525) \o IPv6Hdr(60, 28) \o <<IPPROTO_TCP, 0, 1, 4, 0, 0, 0, 0>>
        \o TCPHdr(40000, 443)
\* IPv6 carried in GRE over IPv4
PktGRE ==
    EthHdr(2048) \o IPv4Hdr(47, 64) \o <<0, 0>> \o BE16(34525)
        \o IPv6Hdr(IPPROTO_TCP, 20) \o TCPHdr(40000, 443)
\* an IPv4 header of protocol TCP with no payload
PktNoPayload == EthHdr(2048) \o IPv4Hdr(IPPROTO_TCP, 0)
\* VXLAN bytes sent from port 4789 to the DNS port
PktDNS ==
    EthHdr(2048) \o IPv4Hdr(IPPROTO_UDP, 70) \o UDPHdr(4789, 53, 62)
        \o VXLANHdr \o PktTCP4

Packets ==
    {<<>>, PktTCP4, PktUDP6, PktICMP4, PktICMP6, PktSCTP4, PktOther, Pkt6in4,
     PktVXLAN, PktVlan, PktDstOpts, PktGRE, PktNoPayload, PktDNS}

\* a perf record: the event header the kernel program wrote, then the bytes
\* of the packet
EventRecord(ifId, ruleId, action, pktLength, bytes) ==
    [LostSamples |-> 0,
     RawSample   |-> LE16(ifId) \o LE16(ruleId) \o <<action, 0>> \o LE16(pktLength)
                        \o bytes]

\* the record of the scenario: {ifIndex 5, ruleId 1, action Deny, pktLength
\* 54} and an Ethernet+IPv4+TCP packet
RecTCP4     == EventRecord(5, 1, xdpDeny, 54, PktTCP4)
\* lost samples, without and with sample bytes
RecLost     == [LostSamples |-> 3, RawSample |-> <<>>]
RecLostData == [LostSamples |-> 1, RawSample |-> RecTCP4.RawSample]
\* fewer bytes than the header
RecShortHdr == [LostSamples |-> 0, RawSample |-> <<5, 0, 1, 0, 1>>]
\* fewer bytes after the header than the packet length
RecShortPkt == EventRecord(5, 1, xdpDeny, 54, SubSeq(PktTCP4, 1, 30))
\* an interface index the node does not have
RecNoIface  == EventRecord(9, 1, xdpDeny, 54, PktTCP4)
\* padding after the packet
RecPadded   == EventRecord(2, 6, xdpAllow, 16, PktOther \o <<0, 0, 0, 0>>)

\* what the reader loops of SpecEvents are handed
LoopRecords ==
    {RecTCP4, RecLost, RecLostData, RecShortHdr, RecShortPkt, RecNoIface, RecPadded}

\* what the loop body writes for each of them
LoopOutputs == [r \in LoopRecords |-> ProcessRecord(r)]

\* what SpecDecode decodes: every packet under several headers, with and
\* without lost samples
DecodeRecords ==
    {[EventRecord(ifId, 1, action, Len(pkt), pkt) EXCEPT !.LostSamples = lost] :
        ifId \in {2, 5, 9}, action \in {xdpDeny, xdpAllow, 7},
        pkt \in Packets, lost \in {0, 2}}
        \cup LoopRecords

(***************************************************************************)
(* State                                                                   *)
(***************************************************************************)
NotParsed == [done |-> FALSE, err |-> FALSE, start |-> 0, end |-> 0]

NotCompiled == [done |-> FALSE, status |-> "none", rules |-> ZeroRules]

NoCall ==
    [op |-> "none", isDelete |-> FALSE, rules |-> <<>>, cidrs |-> <<>>,
     names |-> <<>>, result |-> "none", stage |-> "none", at |-> 0,
     keys |-> <<>>, cleanups |-> 0, attempts |-> 0, finalized |-> FALSE]

\* no reader loop has turned yet
NoRecord == [LostSamples |-> 0, RawSample |-> <<>>]

NoRead ==
    [pipe |-> 0, err |-> "none", rec |-> NoRecord, audit |-> <<>>, diag |-> <<>>]

Snapshot ==
    [table |-> table, objsOpen |-> objsOpen, pipelines |-> pipelines,
     links |-> links, xdp |-> xdp, pins |-> pins]

\* the controller NewIngNodeFwController returns on a fresh node: objects
\* loaded, table empty, nothing attached, nothing pinned
InitController ==
    /\ table = EmptyTable
    /\ objsOpen = TRUE
    /\ pipelines = 0
    /\ links = <<>>
    /\ xdp = {}
    /\ pins = {}
    /\ last = NoCall
    /\ pre = [table |-> EmptyTable, objsOpen |-> TRUE, pipelines |-> 0,
              links |-> <<>>, xdp |-> {}, pins |-> {}]
    /\ readers = <<>>
    /\ term = FALSE
    /\ ev = NoRead

NoPureInput ==
    /\ ports = <<>>
    /\ parsed = NotParsed
    /\ cfgRules = <<>>
    /\ compiled = NotCompiled

Init == InitController /\ NoPureInput

pureVars == <<ports, parsed, cfgRules, compiled>>
evVars   == <<readers, term, ev>>
attVars  == <<links, xdp, pins>>

\* a panic ends the process: no call follows it
Running == last.result # "panic"

(***************************************************************************)
(* Actions                                                                 *)
(***************************************************************************)
\* a reconcile call has opened its reader and waits in wait.PollImmediate
InPoll == last.op = "reconcile" /\ last.result = "pending"

\* the reader of the call that waits in the poll
Polling(i) == InPoll /\ i = Len(readers)

\* lines 224-238 and 25-35: reconcile-rules up to the poll. Info() fails on
\* a closed table; then the rules map is made (refuseAt: the range whose
\* Update the kernel refuses, 0 for none); then the stopper channel is
\* registered and the perf reader is opened (readerOk). The call then waits
\* for the syslog connection, and the tasks of earlier pipelines and the
\* signals take their turns while it does. The table is read by nothing
\* else here, so the writes of the ranges are taken in one step. The guard
\* on Len(readers) bounds the pipelines of one behaviour.
IngressNodeFwRulesLoader(rulesList, cidrs, isDelete, refuseAt, readerOk) ==
    /\ Running
    /\ ~InPoll
    /\ Len(readers) < MaxPipelines
    /\ LET call(result, stage, at, keys) ==
               [op |-> "reconcile", isDelete |-> isDelete, rules |-> rulesList,
                cidrs |-> cidrs, names |-> <<>>, result |-> result,
                stage |-> stage, at |-> at, keys |-> keys, cleanups |-> 0,
                attempts |-> 0, finalized |-> FALSE]
       IN  IF ~objsOpen
           THEN /\ table' = table
                /\ readers' = readers
                /\ last' = call("error", "info", 0, <<>>)
           ELSE \E m \in {makeIngressFwRulesMap(table, rulesList, cidrs, isDelete,
                                                 refuseAt)},
                   nr \in {NewReader(readerOk)} :
                IF m.status # "ok"
                THEN /\ table' = m.table
                     /\ readers' = readers
                     /\ last' = call(m.status, m.stage, m.at, m.keys)
                ELSE IF nr.err
                THEN /\ table' = m.table
                     /\ readers' = readers
                     /\ last' = call("error", "perf", 0, m.keys)
                ELSE /\ table' = m.table
                     /\ readers' = readers \o nr.rds
                     /\ last' = call("pending", "none", 0, m.keys)
    /\ pre' = Snapshot
    /\ UNCHANGED <<objsOpen, pipelines, attVars, pureVars, term, ev>>

\* lines 39-64 and 236-242: the poll of the waiting call ends. syslogAt is
\* the attempt at which the syslog connection first succeeds, limit the
\* attempts the timeout leaves room for. On a timeout the call returns the
\* error; otherwise the two goroutines are started and the call returns nil
\* (ingressNodeFwStats() of line 240 returns nothing and touches none of the
\* state kept here).
SyslogPoll(syslogAt, limit) ==
    /\ InPoll
    /\ \E st \in {AfterPoll(pipelines, readers[Len(readers)],
                            PollImmediate(1, syslogAt, limit))} :
           /\ pipelines' = st.pipelines
           /\ readers' = [readers EXCEPT ![Len(readers)] = st.rd]
           /\ last' = [last EXCEPT !.result = IF st.err THEN "error" ELSE "ok",
                                   !.stage = IF st.err THEN "syslog" ELSE "none",
                                   !.attempts = st.attempts]
    /\ UNCHANGED <<table, objsOpen, attVars, pre, pureVars, term, ev>>

\* lines 333-362: attach-interfaces
IngressNodeFwAttach(names, isDelete, pinOk) ==
    /\ Running
    /\ ~InPoll
    /\ \E r \in {IngressNodeFwAttachCall(
                    names,
                    [links |-> links, xdp |-> xdp, pins |-> pins,
                     objsOpen |-> objsOpen, cleanups |-> 0],
                    isDelete, pinOk)} :
           /\ links' = r.att.links
           /\ xdp' = r.att.xdp
           /\ pins' = r.att.pins
           /\ objsOpen' = r.att.objsOpen
           /\ last' = [op |-> "attach", isDelete |-> isDelete, rules |-> <<>>,
                       cidrs |-> <<>>, names |-> names, result |-> r.status,
                       stage |-> r.stage, at |-> r.at, keys |-> <<>>,
                       cleanups |-> r.att.cleanups, attempts |-> 0,
                       finalized |-> FALSE]
    /\ pre' = Snapshot
    /\ UNCHANGED <<table, pipelines, pureVars, evVars>>

\* the number of ranges, from position n on, that the loop of lines 304-328
\* gets through before a range that does not parse
RECURSIVE LeadingRanges(_, _)
LeadingRanges(cidrs, n) ==
    IF n > Len(cidrs) THEN 0
    ELSE IF ParseCIDR(cidrs[n]).err THEN 0
    ELSE 1 + LeadingRanges(cidrs, n + 1)

\* the positions at which the kernel can refuse an Update of a call: those
\* of the Updates the call makes, which are none for a delete and for rules
\* that do not compile, and which end before a range that does not parse
RefuseAts(compiles, cidrs, isDelete) ==
    IF isDelete \/ ~compiles THEN {0} ELSE 0..LeadingRanges(cidrs, 1)

\* A garbage collection of the Go runtime, which can come at any time or
\* never, runs the finalizer of an unreferenced link: the link the attach of
\* lines 343-353 left behind when its Pin failed.
LinkFinalizer ==
    /\ Running
    /\ \E ifIndex \in UnreferencedLinks(links, xdp) :
           xdp' = FinalizeLink(xdp, ifIndex)
    /\ last' = [last EXCEPT !.finalized = TRUE]
    /\ UNCHANGED <<table, objsOpen, pipelines, links, pins, pre, pureVars, evVars>>

\* The same for the perf reader of a pipeline start that returned on the
\* poll's error (lines 46-48): rd is open and nothing references it.
ReaderFinalizer(i) ==
    /\ i \in 1..Len(readers)
    /\ ~Polling(i)
    /\ Unreferenced(readers[i])
    /\ readers' = [readers EXCEPT ![i] = FinalizeReader(@)]
    /\ UNCHANGED <<table, objsOpen, pipelines, attVars, last, pre, pureVars,
                   term, ev>>

\* the range lists a rule list is called with: the rule loop of lines
\* 252-301 returns before SourceCIDRs is read (line 304) when a rule does not
\* compile, so such a list is called with no range, one range and a
\* malformed range only
CallCidrLists(compiles) ==
    IF compiles THEN CidrLists ELSE {<<>>, <<Cidr10>>, <<CidrBad, CidrFd>>}

\* the reconcile calls of SpecRules; the perf reader opens (SpecEvents has
\* the calls whose reader does not)
Reconcile ==
    \E rulesList \in CallRuleLists, isDelete \in BOOLEAN :
      \E compiles \in {ParseRules(rulesList).status = "ok"} :
        \E cidrs \in CallCidrLists(compiles) :
          \E refuseAt \in RefuseAts(compiles, cidrs, isDelete) :
            IngressNodeFwRulesLoader(rulesList, cidrs, isDelete, refuseAt, TRUE)

Attach ==
    \E names \in NameLists, isDelete \in BOOLEAN :
        \E pinOk \in [1..Len(names) -> BOOLEAN] :
            IngressNodeFwAttach(names, isDelete, pinOk)

\* a detach of one existing interface: what closes the objects under the
\* reconcile calls of SpecRules
DetachOne == IngressNodeFwAttach(<<"eth0">>, TRUE, <<TRUE>>)

\* SpecPorts: parseDstPorts applied to the text drawn by InitPorts
ParsePorts ==
    /\ ~parsed.done
    /\ \E r \in {parseDstPorts(ports)} :
           parsed' = [done |-> TRUE, err |-> r.err, start |-> r.start, end |-> r.end]
    /\ UNCHANGED <<ports, cfgRules, compiled, table, objsOpen, pipelines,
                   attVars, last, pre, evVars>>

\* SpecCompile: the rule loop applied to the list drawn by InitCompile
CompileRules ==
    /\ ~compiled.done
    /\ \E r \in {ParseRules(cfgRules)} :
           compiled' = [done |-> TRUE, status |-> r.status, rules |-> r.rules]
    /\ UNCHANGED <<ports, parsed, cfgRules, table, objsOpen, pipelines,
                   attVars, last, pre, evVars>>

\* the stopper channel of the i-th reader can still be received from: its
\* signal-watcher waits on it, or its call waits in the poll and may start
\* the signal-watcher
Listened(i) == readers[i].watcher = "waiting" \/ Polling(i)

\* a termination request arrives: SIGINT or SIGTERM is sent to every
\* stopper channel registered by signal.Notify (line 28). A channel holds
\* one signal. Only the channels that can still be received from are kept
\* track of: what the others hold is never received.
Signal ==
    /\ ~term \/ \E i \in 1..Len(readers) : Listened(i) /\ ~readers[i].stopper
    /\ term' = TRUE
    /\ readers' = [i \in 1..Len(readers) |->
                      IF Listened(i)
                      THEN [readers[i] EXCEPT !.stopper = TRUE]
                      ELSE readers[i]]
    /\ UNCHANGED <<table, objsOpen, pipelines, attVars, last, pre, pureVars, ev>>

\* lines 49-59: the signal-watcher of the i-th reader receives from stopper
SignalWatcher(i) ==
    /\ i \in 1..Len(readers)
    /\ readers[i].watcher = "waiting"
    /\ readers[i].stopper
    /\ \E closeOk \in BOOLEAN :
           readers' = [readers EXCEPT ![i] = CloseReader(@, closeOk)]
    /\ UNCHANGED <<table, objsOpen, pipelines, attVars, last, pre, pureVars,
                   term, ev>>

\* what rd.Read() can return: ErrClosed once the reader is closed; before
\* that one of the records the kernel program has written, or an error of
\* another kind
ReadResults(rd, records) ==
    IF ~rd.open THEN {[err |-> "closed", rec |-> NoRecord]}
    ELSE {[err |-> "other", rec |-> NoRecord]}
            \cup {[err |-> "none", rec |-> r] : r \in records}

\* lines 71-77: what the loop writes for a Read that failed
ReadFailed(readErr) ==
    IF readErr = "closed" THEN [audit |-> <<>>, diag |-> <<>>]
    ELSE Skipped("Reading from perf event reader", 0)

\* lines 68-144: one turn of the reader loop of the i-th reader, on a ring
\* buffer that holds the given records
ReaderTurn(i, records) ==
    /\ i \in 1..Len(readers)
    /\ readers[i].reader = "reading"
    /\ \E res \in ReadResults(readers[i], records) :
         \E out \in {IF res.err = "none" THEN LoopOutputs[res.rec]
                     ELSE ReadFailed(res.err)} :
            /\ ev' = [pipe |-> i, err |-> res.err, rec |-> res.rec,
                      audit |-> out.audit, diag |-> out.diag]
            /\ readers' = [readers EXCEPT ![i].reader = ReaderAfter(res.err)]
    /\ UNCHANGED <<table, objsOpen, pipelines, attVars, last, pre, pureVars, term>>

ReaderLoop(i) == ReaderTurn(i, LoopRecords)

\* the same on a ring buffer that holds well-formed events only
ReaderLoopEvents(i) == ReaderTurn(i, {RecTCP4})

\* the reconcile calls of SpecEvents: one rule, one range, and a perf
\* reader that opens or not
StartPipeline ==
    \E readerOk \in BOOLEAN :
        IngressNodeFwRulesLoader(<<RuleTCP>>, <<Cidr10>>, FALSE, 0, readerOk)

\* the attempts at which the syslog connection first succeeds: any attempt
\* of the longest poll
SyslogAts == 1..MaxSinkAttempts

\* the ways the poll of line 39 ends: the syslog connection succeeds at an
\* attempt the timeout leaves room for, or it never does and the poll times
\* out after any number of attempts it can make. (A connection that would
\* succeed after the timeout is one that never succeeds.)
PollSink ==
    \/ \E syslogAt \in SyslogAts : SyslogPoll(syslogAt, MaxSinkAttempts)
    \/ \E limit \in PollLimits : SyslogPoll(MaxSinkAttempts + 1, limit)

\* SpecDecode: the loop body applied to the record drawn by InitDecode
DecodeOne ==
    /\ ev.err = "unread"
    /\ \E out \in {ProcessRecord(ev.rec)} :
           ev' = [ev EXCEPT !.err = "none", !.audit = out.audit, !.diag = out.diag]
    /\ UNCHANGED <<table, objsOpen, pipelines, attVars, last, pre, pureVars,
                   readers, term>>

(***************************************************************************)
(* Specifications                                                          *)
(***************************************************************************)
\* What the table can hold when a controller is created: the table is
\* pinned, so it keeps the entries that earlier reconcile calls (of this or
\* of an earlier process) upserted: any of the valid ranges, each under the
\* compiled value of any valid rule list.
ValidEntryIds ==
    {EntryId(MakeKey(ZeroKey, ParseCIDR(c))) :
        c \in {d \in CidrDomain : ~ParseCIDR(d).err}}

ValidValues ==
    {ParseRules(l).rules : l \in {x \in CallRuleLists : ParseRules(x).status = "ok"}}

PersistedTables == UNION {[ids -> ValidValues] : ids \in SUBSET ValidEntryIds}

\* The rule compiler and the Map Store: one reconcile call on a controller
\* whose table holds any persisted content, with the objects open or closed
\* by an earlier detach.
InitRules ==
    /\ table \in PersistedTables
    /\ objsOpen = TRUE
    /\ pipelines = 0
    /\ links = <<>>
    /\ xdp = {}
    /\ pins = {}
    /\ last = NoCall
    /\ pre = [table |-> table, objsOpen |-> TRUE, pipelines |-> 0,
              links |-> <<>>, xdp |-> {}, pins |-> {}]
    /\ readers = <<>>
    /\ term = FALSE
    /\ ev = NoRead
    /\ NoPureInput

\* The detach that closes the objects is taken on the tables of at most one
\* entry: the reconcile call after it fails at Info() whatever the table
\* holds.
NextRules ==
    \/ (last.op = "none" /\ Cardinality(DOMAIN table) <= 1 /\ DetachOne)
    \/ (last.op # "reconcile" /\ Reconcile)
    \/ PollSink

SpecRules == InitRules /\ [][NextRules]_vars

\* The attachment manager: any sequence of attach and detach calls on a
\* freshly created controller.
NextAttach ==
    \/ Attach
    \/ LinkFinalizer

SpecAttach == Init /\ [][NextAttach]_vars

\* parseDstPorts over the port texts
InitPorts ==
    /\ InitController
    /\ ports \in PortTexts
    /\ parsed = NotParsed
    /\ cfgRules = <<>>
    /\ compiled = NotCompiled

SpecPorts == InitPorts /\ [][ParsePorts]_vars

\* the rule loop over the rule lists
InitCompile ==
    /\ InitController
    /\ ports = <<>>
    /\ parsed = NotParsed
    /\ cfgRules \in RuleLists
    /\ compiled = NotCompiled

SpecCompile == InitCompile /\ [][CompileRules]_vars

\* The event pipeline: reconcile calls start pipelines, termination requests
\* arrive, and the two goroutines of every started pipeline take their turns.
NextEvents ==
    \/ StartPipeline
    \/ PollSink
    \/ Signal
    \/ \E i \in 1..MaxPipelines : SignalWatcher(i)
    \/ \E i \in 1..MaxPipelines : ReaderLoop(i)
    \/ \E i \in 1..MaxPipelines : ReaderFinalizer(i)

SpecEvents == Init /\ [][NextEvents]_vars

\* The start of pipelines: the same with polls that end, by their timeout at
\* the latest, and with reader tasks that read well-formed events (what a
\* record holds plays no part in the start of a pipeline).
NextEventsPoll ==
    \/ StartPipeline
    \/ PollSink
    \/ Signal
    \/ \E i \in 1..MaxPipelines : SignalWatcher(i)
    \/ \E i \in 1..MaxPipelines : ReaderLoopEvents(i)
    \/ \E i \in 1..MaxPipelines : ReaderFinalizer(i)

SpecEventsPoll == Init /\ [][NextEventsPoll]_vars /\ WF_vars(PollSink)

\* The event pipeline under the scheduling of goroutines: a goroutine that
\* can take its next step does take it.
SpecEventsFair ==
    /\ SpecEvents
    /\ \A i \in 1..MaxPipelines : WF_vars(SignalWatcher(i)) /\ WF_vars(ReaderLoop(i))

\* the loop body over the event records
InitDecode ==
    /\ table = EmptyTable
    /\ objsOpen = TRUE
    /\ pipelines = 0
    /\ links = <<>>
    /\ xdp = {}
    /\ pins = {}
    /\ last = NoCall
    /\ pre = [table |-> EmptyTable, objsOpen |-> TRUE, pipelines |-> 0,
              links |-> <<>>, xdp |-> {}, pins |-> {}]
    /\ readers = <<>>
    /\ term = FALSE
    /\ ev \in {[NoRead EXCEPT !.err = "unread", !.rec = r] : r \in DecodeRecords}
    /\ NoPureInput

SpecDecode == InitDecode /\ [][DecodeOne]_vars

(***************************************************************************)
(* What the claims speak of, stated apart from the code's way of computing *)
(***************************************************************************)
\* a non-empty text of decimal digits
IsNumeral(s) == Len(s) > 0 /\ \A i \in 1..Len(s) : IsDigit(s[i])

\* a numeral without its leading zeros (the last digit is kept)
RECURSIVE Significant(_)
Significant(s) ==
    IF Len(s) > 1 /\ s[1] = "0" THEN Significant(SubSeq(s, 2, Len(s))) ELSE s

\* the number a numeral of at most five significant digits denotes
RECURSIVE NumeralValue(_)
NumeralValue(s) ==
    IF Len(s) = 0 THEN 0
    ELSE 10 * NumeralValue(SubSeq(s, 1, Len(s) - 1)) + DigitVal(s[Len(s)])

\* a numeral denoting a number in 0..65535
IsPort(s) ==
    /\ IsNumeral(s)
    /\ Len(Significant(s)) <= 5
    /\ NumeralValue(Significant(s)) <= 65535

PortValue(s) == NumeralValue(Significant(s))

\* the positions at which a text is "N-M" with N and M both ports
RangeSplits(s) ==
    {i \in 1..Len(s) : /\ s[i] = "-"
                       /\ IsPort(SubSeq(s, 1, i - 1))
                       /\ IsPort(SubSeq(s, i + 1, Len(s)))}

WellFormedPorts(s) == IsPort(s) \/ RangeSplits(s) # {}

PortProtocols == {"TCP", "UDP", "SCTP"}
IcmpProtocols == {"ICMP", "ICMPv6"}

\* a rule the compiler must accept
ValidRule(r) ==
    /\ r.Protocol \in PortProtocols \cup IcmpProtocols
    /\ r.Action \in {"Allow", "Deny"}
    /\ r.Protocol \in PortProtocols => WellFormedPorts(r.Ports)

InvalidRule(r) == ~ValidRule(r)

HasInvalidRule(list) == \E i \in 1..Len(list) : InvalidRule(list[i])

ProtocolNumber(tag) ==
    CASE tag = "TCP"    -> IPPROTO_TCP
      [] tag = "UDP"    -> IPPROTO_UDP
      [] tag = "SCTP"   -> IPPROTO_SCTP
      [] tag = "ICMP"   -> IPPROTO_ICMP
      [] tag = "ICMPv6" -> IPPROTO_ICMPV6

ActionCode(a) == IF a = "Allow" THEN xdpAllow ELSE xdpDeny

\* the (start, end) pair a well-formed port text stands for
PortPair(s) ==
    IF IsPort(s) THEN <<PortValue(s), 0>>
    ELSE LET i == CHOOSE j \in RangeSplits(s) : TRUE
         IN  <<PortValue(SubSeq(s, 1, i - 1)), PortValue(SubSeq(s, i + 1, Len(s)))>>

\* what the rule loop returns for each rule list the calls carry
CompiledLists == [l \in CallRuleLists |-> ParseRules(l)]

\* the key a range yields when it is the only range of a call
RangeKeys == [c \in CidrDomain |-> MakeKey(ZeroKey, ParseCIDR(c))]

KeyOf(cidr) == RangeKeys[cidr]

ListedIds(cidrs) == {EntryId(KeyOf(cidrs[i])) : i \in 1..Len(cidrs)}

\* every entry of the table outside ids is what it was before the call
OthersUnchanged(ids) ==
    \A id \in ((DOMAIN table) \cup (DOMAIN pre.table)) \ ids :
        /\ id \in DOMAIN table
        /\ id \in DOMAIN pre.table
        /\ table[id] = pre.table[id]

ReconcileDone == last.op = "reconcile" /\ last.result # "pending"
\* the state is the one an attach or a detach call left: no finalizer has
\* run since
AttachDone    == last.op = "attach" /\ ~last.isDelete /\ ~last.finalized
DetachDone    == last.op = "attach" /\ last.isDelete /\ ~last.finalized

(***************************************************************************)
(* Claims                                                                  *)
(***************************************************************************)
\* C1: a reconcile-rules call whose rule list holds a rule with bad port
\* text, an unknown protocol or an unknown action returns an error and leaves
\* the table as it was. (The port text of a rule is that of a TCP, UDP or
\* SCTP rule: an ICMP rule carries a type and a code.)
C1_InvalidRuleRejected ==
    (ReconcileDone /\ HasInvalidRule(last.rules))
        => (last.result = "error" /\ table = pre.table)

\* What does hold of such a call: whatever its outcome (an error, or the
\* panic of a list longer than the array), no table entry was touched.
InvalidRuleLeavesTable ==
    (ReconcileDone /\ HasInvalidRule(last.rules))
        => (last.result \in {"error", "panic"} /\ table = pre.table /\ last.keys = <<>>)

\* C2: a reconcile-rules call whose range list holds a malformed entry at
\* any position is rejected with an error and writes nothing, also for the
\* well-formed ranges listed before the malformed one. Stated for the calls
\* whose rule list compiles, which are the calls that get to the ranges.
C2_MalformedRangeNoPartialWrite ==
    (/\ ReconcileDone
     /\ pre.objsOpen
     /\ CompiledLists[last.rules].status = "ok"
     /\ \E i \in 1..Len(last.cidrs) : last.cidrs[i] = CidrBad)
        => (last.result = "error" /\ table = pre.table)

\* C3: after a successful reconcile-rules call with isDelete = false, the
\* lookup of the key of each listed range returns the value compiled from
\* the call's rule list, and every other entry is unchanged.
C3_UpsertPostcondition ==
    (ReconcileDone /\ ~last.isDelete /\ last.result = "ok")
        => /\ \A i \in 1..Len(last.cidrs) :
                MapLookup(table, KeyOf(last.cidrs[i])) = CompiledLists[last.rules].rules
           /\ OthersUnchanged(ListedIds(last.cidrs))

\* a successful upsert of two ranges, one of which replaced the entry of
\* 10.0.0.0/8: key (8, 10.0.0.0) now maps to count 1, entry 0 =
\* {1, TCP, 80, 443, Allow}
C3_Witness ==
    /\ ReconcileDone /\ ~last.isDelete /\ last.result = "ok"
    /\ last.rules = <<RuleTCP>>
    /\ last.cidrs = <<CidrFd, Cidr10>>
    /\ EntryId(KeyOf(Cidr10)) \in DOMAIN pre.table
    /\ pre.table[EntryId(KeyOf(Cidr10))].NumRules = 2
    /\ EntryId(KeyOf(CidrFd)) \notin DOMAIN pre.table
    /\ EntryId(KeyOf(Cidr10s)) \in DOMAIN table
    /\ KeyOf(Cidr10) = [PrefixLen |-> 8, IpData |-> <<10, 0, 0, 0>> \o Zeros(12)]
    /\ MapLookup(table, KeyOf(Cidr10)).NumRules = 1
    /\ MapLookup(table, KeyOf(Cidr10)).Rules[0] =
          [RuleId |-> 1, Protocol |-> 6, DstPortStart |-> 80, DstPortEnd |-> 443,
           IcmpType |-> 0, IcmpCode |-> 0, Action |-> 2]
    /\ MapLookup(table, KeyOf(CidrFd)) = MapLookup(table, KeyOf(Cidr10))

\* C4 as the spec states it: after a successful reconcile-rules call with
\* isDelete = true, the lookup of the key of each listed range returns
\* absent, whatever the rule list, and every other entry is unchanged.
C4_DeletePostcondition ==
    (ReconcileDone /\ last.isDelete /\ last.result = "ok")
        => /\ \A i \in 1..Len(last.cidrs) :
                MapLookup(table, KeyOf(last.cidrs[i])) = Absent
           /\ OthersUnchanged(ListedIds(last.cidrs))

\* the entries that are left in the table and cover the key of a range
RetainedCovering(cidr) == {id \in DOMAIN table : Covers(id, KeyOf(cidr))}

\* C4, amended: after a successful reconcile-rules call with isDelete =
\* true, whatever the rule list, no listed range has an entry of its own,
\* and every other entry is unchanged. The lookup of the key of a listed
\* range returns absent exactly when no retained entry of a shorter prefix
\* covers the range; when one does, the lookup returns the value of the
\* longest of them.
C4_DeleteRemovesListedEntries ==
    (ReconcileDone /\ last.isDelete /\ last.result = "ok")
        => /\ \A i \in 1..Len(last.cidrs) :
                /\ EntryId(KeyOf(last.cidrs[i])) \notin DOMAIN table
                /\ (MapLookup(table, KeyOf(last.cidrs[i])) = Absent)
                      <=> (RetainedCovering(last.cidrs[i]) = {})
                /\ \A id \in RetainedCovering(last.cidrs[i]) :
                      /\ id.PrefixLen < KeyOf(last.cidrs[i]).PrefixLen
                      /\ \/ MapLookup(table, KeyOf(last.cidrs[i])) = table[id]
                         \/ \E o \in RetainedCovering(last.cidrs[i]) :
                               o.PrefixLen > id.PrefixLen
           /\ OthersUnchanged(ListedIds(last.cidrs))

\* a successful delete of two of three present ranges, under a rule list
\* other than the one their entries were compiled from: 10.1.0.0/16 and
\* fd00::/64 are gone and 10.0.0.0/8 is retained, so the lookup of
\* (16, 10.1.2.3) now returns the value of 10.0.0.0/8 and the lookup of
\* (64, fd00::1) returns absent
C4_Witness ==
    /\ ReconcileDone /\ last.isDelete /\ last.result = "ok"
    /\ last.rules = <<RuleICMP, RuleUDP>>
    /\ last.cidrs = <<Cidr10s, CidrFd>>
    /\ DOMAIN pre.table = ValidEntryIds
    /\ pre.table[EntryId(KeyOf(Cidr10s))].NumRules = 1
    /\ DOMAIN table = {EntryId(KeyOf(Cidr10))}
    /\ KeyOf(Cidr10s) = [PrefixLen |-> 16, IpData |-> <<10, 1, 2, 3>> \o Zeros(12)]
    /\ MapLookup(table, KeyOf(Cidr10s)) = pre.table[EntryId(KeyOf(Cidr10))]
    /\ MapLookup(table, KeyOf(CidrFd)) = Absent

\* C5: a list of n valid rules, n within the capacity, compiles to count n
\* with entry i carrying rule i's id, protocol number, action code and
\* payload: the (start, end) ports of a TCP/UDP/SCTP rule, the (type, code)
\* of an ICMP/ICMPv6 rule.
C5_CompiledValue ==
    (/\ compiled.done
     /\ Len(cfgRules) <= MaxIngressRules
     /\ \A i \in 1..Len(cfgRules) : ValidRule(cfgRules[i]))
        => /\ compiled.status = "ok"
           /\ compiled.rules.NumRules = Len(cfgRules)
           /\ \A i \in 1..Len(cfgRules) :
                LET r == cfgRules[i]
                    e == compiled.rules.Rules[i - 1]
                IN  /\ e.RuleId = r.Order
                    /\ e.Protocol = ProtocolNumber(r.Protocol)
                    /\ e.Action = ActionCode(r.Action)
                    /\ r.Protocol \in PortProtocols
                          => <<e.DstPortStart, e.DstPortEnd>> = PortPair(r.Ports)
                    /\ r.Protocol \in IcmpProtocols
                          => <<e.IcmpType, e.IcmpCode>> = <<r.ICMPType, r.ICMPCode>>

\* the list {id 1, TCP, Allow, "80-443"}, {id 5, ICMPv6, Allow, 128/1}
\* compiled to count 2
C5_Witness ==
    /\ compiled.done
    /\ cfgRules = <<RuleTCP, RuleICMPv6>>
    /\ compiled.status = "ok"
    /\ compiled.rules.NumRules = 2
    /\ compiled.rules.Rules[0] =
          [RuleId |-> 1, Protocol |-> 6, DstPortStart |-> 80, DstPortEnd |-> 443,
           IcmpType |-> 0, IcmpCode |-> 0, Action |-> 2]
    /\ compiled.rules.Rules[1] =
          [RuleId |-> 5, Protocol |-> 58, DstPortStart |-> 0, DstPortEnd |-> 0,
           IcmpType |-> 128, IcmpCode |-> 1, Action |-> 2]

\* C6: the text "N" of a number N in 0..65535 parses to (N, 0); the text
\* "N-M" of two such numbers parses to (N, M); every other text is rejected.
C6_PortTextParsing ==
    parsed.done
        => /\ IsPort(ports)
                => (~parsed.err /\ parsed.start = PortValue(ports) /\ parsed.end = 0)
           /\ \A i \in RangeSplits(ports) :
                /\ ~parsed.err
                /\ parsed.start = PortValue(SubSeq(ports, 1, i - 1))
                /\ parsed.end = PortValue(SubSeq(ports, i + 1, Len(ports)))
           /\ ~WellFormedPorts(ports) => parsed.err

\* "80-443" parsed to (80, 443)
C6_Witness ==
    /\ parsed.done
    /\ ports = T80to443
    /\ ~parsed.err /\ parsed.start = 80 /\ parsed.end = 443

\* C7: the key handed to the Map Store for a range, prefix length and all 16
\* address bytes, is the key that range yields when it is the only range of
\* the call.
C7_KeyIndependentOfOtherRanges ==
    ReconcileDone
        => \A i \in 1..Len(last.keys) : last.keys[i] = KeyOf(last.cidrs[i])

\* the AttachmentRecord of a completed attach of name
LinkRecord(name) ==
    [name |-> name, ifIndex |-> IfaceIndex(name), path |-> LinkPinPath(name),
     open |-> TRUE, pinned |-> TRUE]

Unresolvable(name) == IfaceIndex(name) = 0

HasUnresolvable(names) == \E k \in 1..Len(names) : Unresolvable(names[k])

\* position of the first name of the list that does not resolve
FirstUnresolvable(names) ==
    CHOOSE k \in 1..Len(names) :
        Unresolvable(names[k]) /\ \A j \in 1..(k - 1) : ~Unresolvable(names[j])

\* C8: an attach call whose list holds a name that does not resolve, first
\* at position k, returns an error and stops at position k at the latest:
\* the registry grows by at most k-1 records, keeps the records it had, and
\* holds none for the failing name. When the call stops on that lookup, the
\* names before k are attached, pinned and tracked and stay so (no
\* rollback), and nothing else has changed. In particular an attach of
\* ["nonexistent0"] on an empty registry returns an error and leaves the
\* registry at length 0.
C8_UnresolvableNameStopsAttach ==
    /\ (AttachDone /\ HasUnresolvable(last.names)) =>
          LET k == FirstUnresolvable(last.names)
          IN  /\ last.result = "error"
              /\ last.at \in 1..k
              /\ Len(links) <= Len(pre.links) + (k - 1)
              /\ Len(links) >= Len(pre.links)
              /\ SubSeq(links, 1, Len(pre.links)) = pre.links
              /\ \A i \in 1..Len(links) : links[i].name # last.names[k]
    /\ (AttachDone /\ last.stage = "lookup") =>
          LET k == last.at
          IN  /\ last.result = "error"
              /\ k = FirstUnresolvable(last.names)
              /\ links = pre.links \o [i \in 1..(k - 1) |-> LinkRecord(last.names[i])]
              /\ xdp = pre.xdp \cup {IfaceIndex(last.names[i]) : i \in 1..(k - 1)}
              /\ pins = pre.pins \cup {LinkPinPath(last.names[i]) : i \in 1..(k - 1)}
              /\ objsOpen = pre.objsOpen
    /\ (AttachDone /\ last.names = <<"nonexistent0">> /\ pre.links = <<>>) =>
          (last.result = "error" /\ Len(links) = 0)

\* an attach of ["eth0", "nonexistent0"] has stopped on the second name with
\* eth0 attached, pinned and tracked
C8_Witness ==
    /\ AttachDone
    /\ last.names = <<"eth0", "nonexistent0">>
    /\ last.result = "error"
    /\ last.stage = "lookup"
    /\ last.at = 2
    /\ Len(links) = Len(pre.links) + 1
    /\ links[Len(links)] = LinkRecord("eth0")
    /\ 2 \in xdp
    /\ LinkPinPath("eth0") \in pins

\* every tracked attachment is unpinned and released, and the table/program
\* resources are released
FullyCleanedUp ==
    /\ \A i \in 1..Len(links) : ~links[i].open /\ ~links[i].pinned
    /\ \A i \in 1..Len(links) : links[i].path \notin pins
    /\ ~objsOpen

\* C9: a detach call that lists at least one name and returns without error
\* has unpinned and released every tracked attachment and released the
\* table/program resources, and it has run this full cleanup exactly once,
\* however many names it lists.
C9_DetachCleansUpOncePerCall ==
    (DetachDone /\ last.result = "ok" /\ Len(last.names) >= 1) =>
        (FullyCleanedUp /\ last.cleanups = 1)

\* a detach has run cleanup with the registry empty from its start on
CleanupOnEmptyRegistry ==
    DetachDone /\ last.cleanups >= 1 /\ pre.links = <<>>

\* C10, as the spec states it: cleanup with an empty registry changes no
\* attachment, no pin and no table/program resource.
C10_CleanupEmptyRegistryNoOp ==
    CleanupOnEmptyRegistry =>
        /\ links = pre.links
        /\ xdp = pre.xdp
        /\ pins = pre.pins
        /\ objsOpen = pre.objsOpen

\* C10, amended: cleanup with an empty registry changes no attachment and no
\* pin, and it leaves the table/program resources released: it is a no-op
\* exactly when they were released already.
C10_CleanupEmptyRegistryReleasesObjects ==
    CleanupOnEmptyRegistry =>
        /\ links = pre.links
        /\ xdp = pre.xdp
        /\ pins = pre.pins
        /\ objsOpen = FALSE
        /\ (objsOpen = pre.objsOpen <=> ~pre.objsOpen)

\* cleanup has run with an empty registry on a controller whose objects were
\* open, and has closed them
C10_Witness ==
    /\ CleanupOnEmptyRegistry
    /\ pre.objsOpen
    /\ ~objsOpen
    /\ links = <<>>

\* C16: every reconcile-rules call, also one with more rules than the array
\* holds, ends normally, with success or with an error; a call that succeeds
\* with more rules than the capacity has written values truncated to the
\* capacity; and no value of the table has a count above the capacity.
C16_OverCapacityHandled ==
    /\ ReconcileDone => last.result \in {"ok", "error"}
    /\ (ReconcileDone /\ last.result = "ok" /\ ~last.isDelete
            /\ Len(last.rules) > MaxIngressRules)
          => \A i \in 1..Len(last.cidrs) :
                MapLookup(table, KeyOf(last.cidrs[i])).NumRules = MaxIngressRules
    /\ \A id \in DOMAIN table : table[id].NumRules <= MaxIngressRules

\* the entries the ranges before position k of the call name
DeletedBefore(k) == {EntryId(KeyOf(last.cidrs[j])) : j \in 1..(k - 1)}

\* position k is the first range of a delete call whose key names no entry:
\* the ranges up to k are well formed, each range before k names an entry
\* that is there when its turn comes, and the k-th does not
ReachesMissing(k) ==
    /\ \A j \in 1..k : ~ParseCIDR(last.cidrs[j]).err
    /\ \A j \in 1..(k - 1) :
          EntryId(KeyOf(last.cidrs[j])) \in (DOMAIN pre.table) \ DeletedBefore(j)
    /\ EntryId(KeyOf(last.cidrs[k])) \notin (DOMAIN pre.table) \ DeletedBefore(k)

\* C17: a delete call that reaches, at position k, a range whose key names
\* no entry returns an error from the delete of that range; the ranges
\* before k are deleted and nothing else is touched, so the ranges listed
\* after k keep their entries.
C17_DeleteMissingKeyIsError ==
    \A k \in 1..Len(last.cidrs) :
        (/\ ReconcileDone /\ last.isDelete /\ pre.objsOpen
         /\ CompiledLists[last.rules].status = "ok"
         /\ ReachesMissing(k))
            => /\ last.result = "error"
               /\ last.stage = "delete"
               /\ last.at = k
               /\ DOMAIN table = (DOMAIN pre.table) \ DeletedBefore(k)
               /\ \A id \in DOMAIN table : table[id] = pre.table[id]

\* a delete of three ranges of which the second has no entry: the first is
\* gone, the call failed at the second, the third is still there
C17_Witness ==
    /\ ReconcileDone /\ last.isDelete
    /\ last.cidrs = <<Cidr10, Cidr10s, CidrFd>>
    /\ DOMAIN pre.table = {EntryId(KeyOf(Cidr10)), EntryId(KeyOf(CidrFd))}
    /\ last.result = "error" /\ last.stage = "delete" /\ last.at = 2
    /\ DOMAIN table = {EntryId(KeyOf(CidrFd))}
    /\ table[EntryId(KeyOf(CidrFd))] = pre.table[EntryId(KeyOf(CidrFd))]

\* C20: at every moment the registry holds exactly the attachments that are
\* bound and pinned: every bound interface has a record, every record is of
\* an attachment that is still bound and still pinned, and every pin is the
\* pin of a record.
C20_RegistryExact ==
    /\ {links[i].ifIndex : i \in 1..Len(links)} = xdp
    /\ {links[i].path : i \in 1..Len(links)} = pins
    /\ \A i \in 1..Len(links) : links[i].open /\ links[i].pinned

(***************************************************************************)
(* Claims about the event pipeline                                         *)
(***************************************************************************)
\* the i-th pipeline is running and a termination request has reached its
\* stopper channel
TermPending(i) ==
    /\ i \in 1..Len(readers)
    /\ readers[i].reader = "reading"
    /\ readers[i].watcher = "waiting"
    /\ readers[i].stopper

\* the i-th pipeline is stopped: the signal-watcher has closed the reader
\* and the reader task has left its loop
Stopped(i) ==
    /\ i \in 1..Len(readers)
    /\ ~readers[i].open
    /\ readers[i].watcher = "done"
    /\ readers[i].reader = "exited"

\* C11: whenever a termination request arrives while a pipeline is running,
\* its signal-watcher closes the reader and its reader task eventually
\* exits; a reader task has exited only after a termination request, on a
\* closed reader, through a read that returned the closed sentinel; and its
\* last turn, the exit, emitted no audit line, so none follows the exit.
C11_TerminationStopsPipeline ==
    /\ \A i \in 1..MaxPipelines : TermPending(i) ~> Stopped(i)
    /\ [](\A i \in 1..Len(readers) :
            readers[i].reader = "exited"
                => /\ term
                   /\ ~readers[i].open
                   /\ ev.pipe # 0
                   /\ ev.pipe = i => (ev.err = "closed" /\ ev.audit = <<>>))

\* the signal-watcher of the i-th pipeline has ended on the error of
\* rd.Close() (lines 55-58): the reader is open and no task is left to
\* close it
CloseFailed(i) ==
    /\ i \in 1..Len(readers)
    /\ readers[i].watcher = "done"
    /\ readers[i].open

\* What does hold of a termination request that reaches a running pipeline:
\* the signal-watcher ends, and the reader task exits unless rd.Close()
\* returned an error; after such an error the reader stays open and the
\* reader task stays in its loop for good.
TerminationStopsPipelineUnlessCloseFails ==
    /\ \A i \in 1..MaxPipelines : TermPending(i) ~> (Stopped(i) \/ CloseFailed(i))
    /\ [](\A i \in 1..Len(readers) :
            CloseFailed(i) => readers[i].reader = "reading")
    /\ [][\A i \in 1..Len(readers) : CloseFailed(i) => CloseFailed(i)']_vars

\* a pipeline that emitted audit lines has been stopped by a termination
\* request: its reader task's last read returned the closed sentinel
C11_Witness ==
    \E i \in 1..Len(readers) :
        /\ term
        /\ Stopped(i)
        /\ ev.pipe = i
        /\ ev.err = "closed"

\* C12: a reader task has left its loop only on a closed reader; the reader
\* of a reader task is closed only after a termination request and only by
\* its signal-watcher, in the step that ends the watcher, which leaves the
\* reader task where it is; and a turn of the loop whose read did not
\* return the closed sentinel (a read failure of another kind, a
\* lost-sample record, a record that fails to decode, an interface that
\* does not resolve) leaves the task in the loop.
C12_OnlyCloseEndsLoop ==
    /\ [](\A i \in 1..Len(readers) :
            /\ readers[i].reader = "exited" => ~readers[i].open
            /\ (readers[i].reader # "none" /\ ~readers[i].open)
                  => (term /\ readers[i].watcher = "done")
            /\ (ev.pipe = i /\ ev.err # "closed") => readers[i].reader = "reading")
    /\ [][\A i \in 1..Len(readers) :
            (readers[i].reader # "none" /\ readers[i].open /\ ~readers'[i].open)
                => /\ readers[i].watcher = "waiting"
                   /\ readers'[i].watcher = "done"
                   /\ readers'[i].reader = readers[i].reader
                   /\ ev' = ev]_vars

\* a read has failed with an error other than the closed sentinel after a
\* termination request reached the pipeline, and the task is still in its loop
C12_Witness ==
    \E i \in 1..Len(readers) :
        /\ ev.pipe = i
        /\ ev.err = "other"
        /\ ev.diag # <<>>
        /\ readers[i].reader = "reading"
        /\ readers[i].open
        /\ readers[i].stopper

\* C13: the turn of the reader loop that read a record with a lost-sample
\* count above zero wrote exactly one log line, the dropped-samples line
\* with that count, and no audit line, whatever sample bytes the record
\* came with, and left the task in the loop.
C13_LostSamplesOneLine ==
    (ev.pipe # 0 /\ ev.err = "none" /\ ev.rec.LostSamples > 0)
        => /\ ev.diag = <<[line |-> "dropped samples", n |-> ev.rec.LostSamples]>>
           /\ ev.audit = <<>>
           /\ readers[ev.pipe].reader = "reading"

\* a lost-sample record that carries the bytes of a decodable event was read
C13_Witness ==
    /\ ev.pipe # 0
    /\ ev.err = "none"
    /\ ev.rec.LostSamples = 1
    /\ Len(ev.rec.RawSample) = eventHdrSize + 54
    /\ Len(ev.diag) = 1

(***************************************************************************)
(* Claims about the audit lines of one record                              *)
(***************************************************************************)
NetworkLines   == {"ipv4", "ipv6"}
TransportLines == {"tcp", "udp", "sctp", "icmpv4", "icmpv6"}
CountLines(lines, kinds) ==
    Cardinality({i \in 1..Len(lines) : lines[i].line \in kinds})

\* C14: the audit lines of a decoded record are one summary line, first,
\* then at most one network-layer line, then at most one transport line.
C14_AuditLineOrder ==
    (ev.err = "none" /\ ev.audit # <<>>)
        => /\ ev.audit[1].line = "summary"
           /\ CountLines(ev.audit, {"summary"}) = 1
           /\ CountLines(ev.audit, NetworkLines) <= 1
           /\ CountLines(ev.audit, TransportLines) <= 1
           /\ \A i, j \in 1..Len(ev.audit) :
                 (ev.audit[i].line \in NetworkLines
                    /\ ev.audit[j].line \in TransportLines) => i < j

(***************************************************************************)
(* Claims about the start of the event pipeline                            *)
(***************************************************************************)
\* the reader record the last reconcile call left behind
NewestReader == readers[Len(readers)]
TasksStarted(rd) == rd.watcher # "none" /\ rd.reader # "none"
NoTaskStarted(rd) == rd.watcher = "none" /\ rd.reader = "none"

\* C15: the start of a pipeline makes at most MaxSinkAttempts connection
\* attempts and its wait for the connection ends. While it waits no task of
\* that pipeline is started. When an attempt succeeds the call returns no
\* error with both tasks started on a connected sink; when all fail the
\* call returns an error after the attempts the timeout had room for, no
\* task of that pipeline is started, then or later (its reader is left
\* to the finalizer), and the count of started pipelines is what it was. A
\* record is read only by a pipeline whose sink is connected.
C15_SinkBeforeTasks ==
    /\ InPoll ~> ~InPoll
    /\ [](/\ last.attempts \in 0..MaxSinkAttempts
          /\ \A i \in 1..Len(readers) :
                \/ readers[i].sink /\ TasksStarted(readers[i])
                \/ /\ ~readers[i].sink /\ NoTaskStarted(readers[i])
                   /\ Polling(i) => readers[i].open
          /\ pipelines = Cardinality({i \in 1..Len(readers) : readers[i].sink})
          /\ ev.pipe # 0 => readers[ev.pipe].sink
          /\ InPoll => (NoTaskStarted(NewestReader) /\ pipelines = pre.pipelines)
          /\ (last.op = "reconcile" /\ last.stage = "syslog")
                => /\ last.result = "error"
                   /\ last.attempts \in PollLimits
                   /\ NoTaskStarted(NewestReader)
                   /\ pipelines = pre.pipelines
          /\ (last.op = "reconcile" /\ last.result = "ok")
                => /\ last.attempts \in 1..MaxSinkAttempts
                   /\ TasksStarted(NewestReader)
                   /\ NewestReader.sink
                   /\ pipelines = pre.pipelines + 1)
    /\ [][\A i \in 1..Len(readers) :
            (NoTaskStarted(readers[i]) /\ ~Polling(i))
                => /\ NoTaskStarted(readers'[i])
                   /\ ~readers'[i].sink
                   /\ ~Polling(i)'
                   /\ readers[i].open \/ ~readers'[i].open]_vars

\* a start has failed after the last attempt of the longest poll, having
\* held a termination request in its stopper channel, and its reader has
\* been finalized, while an earlier pipeline, whose connection succeeded,
\* has read a record
C15_Witness ==
    /\ last.op = "reconcile"
    /\ last.stage = "syslog"
    /\ last.attempts = MaxSinkAttempts
    /\ NoTaskStarted(NewestReader)
    /\ NewestReader.stopper
    /\ ~NewestReader.open
    /\ ev.pipe # 0
    /\ ev.err = "none"
    /\ readers[ev.pipe].sink

\* C18: after any sequence of reconcile calls on one controller at most one
\* reader task and at most one signal-watcher task are running and at most
\* one ring-buffer reader is open.
C18_OnePipelinePerController ==
    /\ Cardinality({i \in 1..Len(readers) : readers[i].reader = "reading"}) <= 1
    /\ Cardinality({i \in 1..Len(readers) : readers[i].watcher = "waiting"}) <= 1
    /\ Cardinality({i \in 1..Len(readers) : readers[i].open}) <= 1

(***************************************************************************)
(* Claims about records that cannot be decoded                             *)
(***************************************************************************)
\* what a record holds, read off its bytes: the header is the first 8
\* bytes, the interface index its first two (little endian), the packet
\* length its last two
HeaderComplete(rec) == Len(rec.RawSample) >= 8
HdrIfId(rec) == rec.RawSample[1] + 256 * rec.RawSample[2]
HdrRuleId(rec) == rec.RawSample[3] + 256 * rec.RawSample[4]
HdrPktLength(rec) == rec.RawSample[7] + 256 * rec.RawSample[8]
PayloadComplete(rec) == Len(rec.RawSample) - 8 >= HdrPktLength(rec)
IfaceResolves(rec) == \E name \in Interfaces : IfaceIndex(name) = HdrIfId(rec)
Decodable(rec) ==
    /\ HeaderComplete(rec)
    /\ PayloadComplete(rec)
    /\ IfaceResolves(rec)

\* C19: the turn of the reader loop that read a record without lost samples
\* wrote no audit line and one diagnostic when the record is shorter than
\* the header, or holds fewer bytes after the header than the header's
\* packet length, or names an interface index that does not resolve; when
\* audit lines were written the header, the payload and the interface name
\* were all obtained and the first line is the summary of that header. In
\* both cases the task stays in the loop.
C19_UndecodableRecordSkipped ==
    (ev.pipe # 0 /\ ev.err = "none" /\ ev.rec.LostSamples = 0)
        => /\ readers[ev.pipe].reader = "reading"
           /\ ~Decodable(ev.rec) => (ev.audit = <<>> /\ Len(ev.diag) = 1)
           /\ ev.audit # <<>>
                => /\ Decodable(ev.rec)
                   /\ ev.diag = <<>>
                   /\ ev.audit[1].line = "summary"
                   /\ ev.audit[1].ruleId = HdrRuleId(ev.rec)
                   /\ ev.audit[1].len = HdrPktLength(ev.rec)
                   /\ IfaceIndex(ev.audit[1].if) = HdrIfId(ev.rec)
                   /\ \A i \in 2..Len(ev.audit) : ev.audit[i].line # "summary"

\* a record with a whole header and fewer payload bytes than its packet
\* length was read and skipped
C19_Witness ==
    /\ ev.pipe # 0
    /\ ev.err = "none"
    /\ ev.rec.LostSamples = 0
    /\ HeaderComplete(ev.rec)
    /\ ~PayloadComplete(ev.rec)
    /\ ev.audit = <<>>
    /\ Len(ev.diag) = 1

====
